---------------------------- MODULE Spec2Model ----------------------------
(***************************************************************************)
(* Model of the record cleaning and cross-source matching scripts of the   *)
(* monument-nation repository:                                             *)
(*   - merge_paris_monuments_with_google_rating.py (normalize_name,        *)
(*     simple_token_similarity, get_aliases_for_en_row,                    *)
(*     find_best_google_match and the merge run);                          *)
(*   - clean_and_analyse_data.py (clean_text, clean_price and the cleaning *)
(*     run);                                                               *)
(*   - data_googleMap/make_paris_monuments_rating_google_cleaned.py (the   *)
(*     deduplication of the Google rows);                                  *)
(*   - redirect_coord_verification.py and redirect_llm_verification.py     *)
(*     (the verification of redirected names);                             *)
(*   - translate_dataset.py (the retry loop of the translation);           *)
(*   - wikipedia_scraper.py (match_category).                              *)
(*                                                                         *)
(* A Python string is a sequence of one-character strings; "" is << >>.    *)
(* Python's None is None (0) where an index is expected and NoneValue      *)
(* where a field value is expected.  Similarity scores are exact rationals *)
(* [n |-> numerator, d |-> denominator].                                   *)
(***************************************************************************)
EXTENDS Integers, Sequences, FiniteSets, TLC

(***************************************************************************)
(* Characters                                                              *)
(***************************************************************************)
UpperChars ==
    <<"A", "B", "C", "D", "E", "F", "G", "H", "I", "J", "K", "L", "M", "N",
      "O", "P", "Q", "R", "S", "T", "U", "V", "W", "X", "Y", "Z",
      "É", "È", "Ê", "À", "Â", "Ô", "Î", "Ç">>

LowerChars ==
    <<"a", "b", "c", "d", "e", "f", "g", "h", "i", "j", "k", "l", "m", "n",
      "o", "p", "q", "r", "s", "t", "u", "v", "w", "x", "y", "z",
      "é", "è", "ê", "à", "â", "ô", "î", "ç">>

AccentedChars == <<"é", "è", "ê", "à", "â", "ô", "î", "ç">>

BaseChars == <<"e", "e", "e", "a", "a", "o", "i", "c">>

\* code point order of the characters a normalized key is made of
KeyChars ==
    <<" ", "0", "1", "2", "3", "4", "5", "6", "7", "8", "9",
      "a", "b", "c", "d", "e", "f", "g", "h", "i", "j", "k", "l", "m", "n",
      "o", "p", "q", "r", "s", "t", "u", "v", "w", "x", "y", "z">>

Digits == {"0", "1", "2", "3", "4", "5", "6", "7", "8", "9"}

Whitespace == {" ", "\t", "\n"}

IndexOf(c, table) == CHOOSE i \in 1..Len(table) : table[i] = c

InTable(c, table) == \E i \in 1..Len(table) : table[i] = c

\* str.lower() on one character
LowerChar(c) == IF InTable(c, UpperChars) THEN LowerChars[IndexOf(c, UpperChars)] ELSE c

\* NFKD decomposition of one character with the combining marks dropped
StripAccentChar(c) ==
    IF InTable(c, AccentedChars) THEN BaseChars[IndexOf(c, AccentedChars)] ELSE c

\* the class [a-z0-9] of the regular expression
IsAlnum(c) == c # " " /\ InTable(c, KeyChars)

(***************************************************************************)
(* Strings                                                                 *)
(***************************************************************************)
MapChars(Op(_), s) == [i \in 1..Len(s) |-> Op(s[i])]

lower(s) == MapChars(LowerChar, s)

\* str.upper() on one character
UpperChar(c) == IF InTable(c, LowerChars) THEN UpperChars[IndexOf(c, LowerChars)] ELSE c

upper(s) == MapChars(UpperChar, s)

\* the least and the greatest element of a non-empty set of integers
SetMin(S) == CHOOSE x \in S : \A y \in S : x <= y

SetMax(S) == CHOOSE x \in S : \A y \in S : x >= y

\* the positions of s that hold no whitespace
NonSpace(s) == {i \in 1..Len(s) : s[i] \notin Whitespace}

LStrip(s) ==
    IF NonSpace(s) = {} THEN << >> ELSE SubSeq(s, SetMin(NonSpace(s)), Len(s))

RStrip(s) ==
    IF NonSpace(s) = {} THEN << >> ELSE SubSeq(s, 1, SetMax(NonSpace(s)))

strip(s) == RStrip(LStrip(s))

\* the last position of the run of non-whitespace characters that holds i
TokenEnd(s, i) ==
    SetMin({e \in i..Len(s) : e = Len(s) \/ s[e + 1] \in Whitespace})

\* the token of s that starts at position i, if one does
TokenAt(s, i) ==
    IF s[i] \notin Whitespace /\ (i = 1 \/ s[i - 1] \in Whitespace)
    THEN <<SubSeq(s, i, TokenEnd(s, i))>>
    ELSE << >>

RECURSIVE SplitFrom(_, _, _)
\* the tokens that start in s[lo..hi]
SplitFrom(s, lo, hi) ==
    IF lo > hi THEN << >>
    ELSE IF lo = hi THEN TokenAt(s, lo)
    ELSE SplitFrom(s, lo, (lo + hi) \div 2) \o SplitFrom(s, (lo + hi) \div 2 + 1, hi)

\* str.split(): the maximal runs of non-whitespace characters
split(s) == SplitFrom(s, 1, Len(s))

RECURSIVE JoinFrom(_, _)
JoinFrom(toks, i) ==
    IF i > Len(toks) THEN << >>
    ELSE IF i = Len(toks) THEN toks[i]
    ELSE toks[i] \o <<" ">> \o JoinFrom(toks, i + 1)

\* " ".join(toks)
join(toks) == JoinFrom(toks, 1)

SeqToSet(s) == {s[i] : i \in 1..Len(s)}

\* Python's None where an index is expected
None == 0

(***************************************************************************)
(* Normalizer: merge_paris_monuments_with_google_rating.py                 *)
(***************************************************************************)
BILINGUAL_STOPWORDS == {
    <<"d", "e">>, <<"d", "u">>, <<"d", "e", "s">>, <<"d">>, <<"l", "a">>,
    <<"l", "e">>, <<"l", "e", "s">>, <<"l">>, <<"a">>, <<"a", "u">>,
    <<"a", "u", "x">>, <<"e", "t">>, <<"e", "n">>, <<"s", "u", "r">>,
    <<"o", "f">>, <<"t", "h", "e">>, <<"a", "n", "d">>, <<"i", "n">>,
    <<"o", "n">>, <<"a", "t">>, <<"m", "u", "s", "e", "u", "m">>,
    <<"m", "u", "s", "é", "e">>, <<"m", "u", "s", "e", "e">>,
    <<"m", "o", "n", "u", "m", "e", "n", "t">>,
    <<"m", "e", "m", "o", "r", "i", "a", "l">>,
    <<"m", "é", "m", "o", "r", "i", "a", "l">>,
    <<"b", "a", "s", "i", "l", "i", "q", "u", "e">>,
    <<"b", "a", "s", "i", "l", "i", "c", "a">>,
    <<"c", "a", "t", "h", "e", "d", "r", "a", "l", "e">>,
    <<"c", "a", "t", "h", "é", "d", "r", "a", "l", "e">>,
    <<"c", "a", "t", "h", "e", "d", "r", "a", "l">>,
    <<"e", "g", "l", "i", "s", "e">>, <<"é", "g", "l", "i", "s", "e">>,
    <<"c", "h", "u", "r", "c", "h">>,
    <<"c", "h", "a", "p", "e", "l", "l", "e">>,
    <<"c", "h", "a", "p", "e", "l">>, <<"c", "h", "a", "t", "e", "a", "u">>,
    <<"c", "h", "â", "t", "e", "a", "u">>, <<"c", "a", "s", "t", "l", "e">>,
    <<"t", "o", "u", "r">>, <<"t", "o", "w", "e", "r">>,
    <<"p", "a", "l", "a", "i", "s">>, <<"p", "a", "l", "a", "c", "e">>,
    <<"j", "a", "r", "d", "i", "n">>, <<"g", "a", "r", "d", "e", "n", "s">>,
    <<"g", "a", "r", "d", "e", "n">>, <<"p", "a", "r", "c">>,
    <<"p", "a", "r", "k">>, <<"p", "o", "n", "t">>,
    <<"b", "r", "i", "d", "g", "e">>, <<"p", "l", "a", "c", "e">>,
    <<"s", "q", "u", "a", "r", "e">>, <<"s", "a", "i", "n", "t">>,
    <<"s", "t">> }

\* mutant: the diacritics are kept
strip_accents_Kept(s) == s

strip_accents(s) == MapChars(StripAccentChar, s)

RECURSIVE ReplaceAmpFrom(_, _, _)
\* s[lo..hi] with every "&" replaced
ReplaceAmpFrom(s, lo, hi) ==
    IF lo > hi THEN << >>
    ELSE IF lo = hi
         THEN IF s[lo] = "&" THEN <<" ", "a", "n", "d", " ">> ELSE <<s[lo]>>
    ELSE ReplaceAmpFrom(s, lo, (lo + hi) \div 2)
         \o ReplaceAmpFrom(s, (lo + hi) \div 2 + 1, hi)

\* s.replace("&", " and ")
ReplaceAmp(s) == ReplaceAmpFrom(s, 1, Len(s))

\* what position i of s contributes: the character, or one space for the
\* first character of a run outside [a-z0-9]
ReSubAt(s, i) ==
    IF IsAlnum(s[i]) THEN <<s[i]>>
    ELSE IF i > 1 /\ ~IsAlnum(s[i - 1]) THEN << >>
    ELSE <<" ">>

RECURSIVE ReSubFrom(_, _, _)
ReSubFrom(s, lo, hi) ==
    IF lo > hi THEN << >>
    ELSE IF lo = hi THEN ReSubAt(s, lo)
    ELSE ReSubFrom(s, lo, (lo + hi) \div 2) \o ReSubFrom(s, (lo + hi) \div 2 + 1, hi)

\* re.sub(r"[^a-z0-9]+", " ", s)
ReSubNonAlnum(s) == ReSubFrom(s, 1, Len(s))

NotStopword(t) == t # << >> /\ t \notin BILINGUAL_STOPWORDS

\* mutant: the stopwords are dropped before "&" and the other characters
\* are replaced
normalize_name_FilterFirst(s) ==
    join(split(ReSubNonAlnum(ReplaceAmp(
        join(SelectSeq(split(strip_accents(lower(strip(s)))), NotStopword))))))

normalize_name(s) ==
    LET s1 == lower(strip(s))
        s2 == strip_accents(s1)
        s3 == ReplaceAmp(s2)
        s4 == ReSubNonAlnum(s3)
        toks == SelectSeq(split(s4), NotStopword)
    IN  join(toks)

(***************************************************************************)
(* Scores are rationals n/d with d > 0                                     *)
(***************************************************************************)
Rat(n, d) == [n |-> n, d |-> d]

RatLt(a, b) == a.n * b.d < b.n * a.d

RatLe(a, b) == a.n * b.d <= b.n * a.d

RatEq(a, b) == a.n * b.d = b.n * a.d

RatMax(a, b) == IF RatLt(a, b) THEN b ELSE a

\* mutant: the intersection is divided by the first set
Jaccard_OverFirst(A, B) ==
    IF A = {} \/ B = {} THEN Rat(0, 1)
    ELSE Rat(Cardinality(A \cap B), Cardinality(A))

\* len(A & B) / len(A | B), 0.0 when A or B is empty
Jaccard(A, B) ==
    IF A = {} \/ B = {} THEN Rat(0, 1)
    ELSE Rat(Cardinality(A \cap B), Cardinality(A \cup B))

\* Jaccard similarity of the token sets of the normalized names
simple_token_similarity(a, b) ==
    Jaccard(SeqToSet(split(normalize_name(a))), SeqToSet(split(normalize_name(b))))

(***************************************************************************)
(* Cleaning functions: clean_and_analyse_data.py                           *)
(*                                                                         *)
(* A field value is a string or NoneValue; a float with a finite decimal   *)
(* expansion is the rational n/d with d a power of ten and no trailing     *)
(* zero, and NoFloat stands for None where a float is expected.            *)
(***************************************************************************)
NoneValue == <<"None">>

NoFloat == Rat(0, 0)

\* Python's truth value of a string or None
Truthy(v) == v # NoneValue /\ v # << >>

\* sub in s
Contains(sub, s) ==
    \E i \in 1..(Len(s) - Len(sub) + 1) : SubSeq(s, i, i + Len(sub) - 1) = sub

\* line 11: the strings for which no number is searched
PricePlaceholders == { <<"n", "o", "t", " ", "f", "o", "u", "n", "d">>, <<"n", "o", "n", "e">>, <<"g", "r", "a", "t", "u", "i", "t">> }

Gratuit == <<"g", "r", "a", "t", "u", "i", "t">>

\* the position of the first digit of s, None without one
FirstDigit(s) ==
    IF \A i \in 1..Len(s) : s[i] \notin Digits THEN None
    ELSE SetMin({i \in 1..Len(s) : s[i] \in Digits})

\* the position after the run of digits of s that starts at i
DigitRunEnd(s, i) ==
    SetMin({j \in i..(Len(s) + 1) : j > Len(s) \/ s[j] \notin Digits})

RECURSIVE Pow10(_)
Pow10(k) == IF k = 0 THEN 1 ELSE 10 * Pow10(k - 1)

RECURSIVE IntOf(_)
\* the value of a string of digits, 0 for the empty one
IntOf(ds) ==
    IF ds = << >> THEN 0
    ELSE 10 * IntOf(SubSeq(ds, 1, Len(ds) - 1)) + (IndexOf(ds[Len(ds)], KeyChars) - 2)

RECURSIVE Float(_, _)
\* n/d without trailing zeros in the decimal expansion
Float(n, d) ==
    IF d > 1 /\ n % 10 = 0 THEN Float(n \div 10, d \div 10) ELSE Rat(n, d)

\* float() of the digit runs around the optional separator
FloatOf(int_digits, frac_digits) ==
    Float(IntOf(int_digits) * Pow10(Len(frac_digits)) + IntOf(frac_digits),
          Pow10(Len(frac_digits)))

\* mutant: the group is the first run of digits only
MatchGroup_IntegerOnly(s, i, j) == FloatOf(SubSeq(s, i, j - 1), << >>)

\* lines 17-19: the group (\d+[.,]?\d*) that starts at i and ends before j
MatchGroup(s, i, j) ==
    IF j <= Len(s) /\ s[j] \in {".", ","}
    THEN FloatOf(SubSeq(s, i, j - 1), SubSeq(s, j + 1, DigitRunEnd(s, j + 1) - 1))
    ELSE FloatOf(SubSeq(s, i, j - 1), << >>)

\* lines 17-20: re.search and the conversion of its first match
SearchNumber(s, i) == IF i = None THEN NoFloat ELSE MatchGroup(s, i, DigitRunEnd(s, i))

\* lines 9-20
clean_price(price_str) ==
    IF ~Truthy(price_str) THEN NoFloat
    ELSE IF lower(price_str) \in PricePlaceholders
         THEN IF Contains(Gratuit, lower(price_str)) THEN Rat(0, 1) ELSE NoFloat
         ELSE SearchNumber(price_str, FirstDigit(price_str))

\* lines 28-31
invalid_strings ==
    { <<"n", "o", "t", " ", "f", "o", "u", "n", "d">>, <<"n", "a", "m", "e", " ", "n", "o", "t", " ", "f", "o", "u", "n", "d">>,
      <<"a", "d", "d", "r", "e", "s", "s", " ", "n", "o", "t", " ", "f", "o", "u", "n", "d">>,
      <<"s", "e", "c", "t", "i", "o", "n", " ", "n", "o", "t", " ", "f", "o", "u", "n", "d">>, <<"n", "o", "n", "e">>, << >> }

\* mutant: the placeholders are compared without lower()
clean_text_CaseSensitive(text) ==
    IF ~Truthy(text) THEN NoneValue
    ELSE IF strip(text) \in invalid_strings THEN NoneValue
    ELSE strip(text)

\* lines 22-36, for a string or None
clean_text(text) ==
    IF ~Truthy(text) THEN NoneValue
    ELSE IF lower(strip(text)) \in invalid_strings THEN NoneValue
    ELSE strip(text)

\* the position of the first line break of s, Len(s) + 1 without one
FirstLineEnd(s) ==
    SetMin({i \in 1..(Len(s) + 1) : i > Len(s) \/ s[i] = "\n"})

\* line 85: conditions.split('\n')[0].strip()
FirstLine(s) == strip(SubSeq(s, 1, FirstLineEnd(s) - 1))

\* a list-valued field: a list of strings, or None
ListValue(items) == [kind |-> "list", items |-> items]

NoneList == [kind |-> "None", items |-> << >>]

\* a string where a list is expected
StrValue(s) == [kind |-> "str", items |-> <<s>>]

\* mutant: the list is taken as it is
FilterList_Unfiltered(v) == v

\* lines 97-101: [x for x in row[field] if x]
FilterList(v) ==
    IF v.kind = "list"
    THEN ListValue(SelectSeq(v.items, Truthy))
    ELSE v

RECURSIVE JoinWithFrom(_, _, _)
JoinWithFrom(sep, items, i) ==
    IF i > Len(items) THEN << >>
    ELSE IF i = Len(items) THEN items[i]
    ELSE items[i] \o sep \o JoinWithFrom(sep, items, i + 1)

\* lines 127-130: " | ".join(...) of a list, any other value as it is
Flatten(v) ==
    IF v.kind = "list"
    THEN StrValue(JoinWithFrom(<<" ", "|", " ">>, v.items, 1))
    ELSE v

\* mutant: a failed extraction is stored as it is
DefaultPrice_None(extracted_price) == extracted_price

\* line 94: a failed extraction counts as free
DefaultPrice(extracted_price) ==
    IF extracted_price # NoFloat THEN extracted_price ELSE Rat(0, 1)

\* mutant: the raw price is not kept beside the cleaned one
CleanedFields_NoRaw(row) ==
    [name |-> clean_text(row.name),
     short_description |-> clean_text(row.short_description),
     address |-> clean_text(row.address),
     opening_hours |-> clean_text(row.opening_hours),
     ticket_price_conditions |->
         IF Truthy(clean_text(row.ticket_price_conditions))
         THEN FirstLine(clean_text(row.ticket_price_conditions))
         ELSE NoneValue,
     ticket_price_raw |-> NoneValue,
     ticket_price |-> DefaultPrice(clean_price(row.ticket_price)),
     payment_methods |-> FilterList(row.payment_methods),
     visiting_services |-> FilterList(row.visiting_services)]

\* lines 76-94: the cleaned fields of new_row
CleanedFields(row) ==
    [name |-> clean_text(row.name),
     short_description |-> clean_text(row.short_description),
     address |-> clean_text(row.address),
     opening_hours |-> clean_text(row.opening_hours),
     ticket_price_conditions |->
         IF Truthy(clean_text(row.ticket_price_conditions))
         THEN FirstLine(clean_text(row.ticket_price_conditions))
         ELSE NoneValue,
     ticket_price_raw |-> row.ticket_price,
     ticket_price |-> DefaultPrice(clean_price(row.ticket_price)),
     payment_methods |-> FilterList(row.payment_methods),
     visiting_services |-> FilterList(row.visiting_services)]

\* lines 73-101: new_row = row.copy() with the cleaned fields assigned
NewRow(row) == CleanedFields(row) @@ row

\* mutant: only the name is required
Keep_NameOnly(new_row) == Truthy(new_row.name)

\* line 105: the record is not skipped
Keep(new_row) == ~(~Truthy(new_row.address) \/ ~Truthy(new_row.name))

(***************************************************************************)
(* rapidfuzz: fuzz.token_set_ratio and process.extractOne as the merge     *)
(* script calls them                                                       *)
(***************************************************************************)
CharOrd(c) == IndexOf(c, KeyChars)

\* a and b agree before position i
SamePrefix(a, b, i) == \A j \in 1..(i - 1) : a[j] = b[j]

\* a < b for two strings of key characters
StrLess(a, b) ==
    \/ Len(a) < Len(b) /\ SamePrefix(a, b, Len(a) + 1)
    \/ \E i \in 1..Len(a) :
          /\ i <= Len(b)
          /\ SamePrefix(a, b, i)
          /\ CharOrd(a[i]) < CharOrd(b[i])

RECURSIVE sorted(_)
sorted(S) ==
    IF S = {} THEN << >>
    ELSE LET m == CHOOSE x \in S : \A y \in S \ {x} : StrLess(x, y)
         IN  <<m>> \o sorted(S \ {m})

\* the row of the table of common subsequence lengths for one more character
\* c of s: row[j + 1] is the length for the first j characters of t
LcsRow(prev, c, t) ==
    SubSeq([j \in 1..(Len(t) + 1) |->
               SetMax({prev[j]} \cup {prev[k] + 1 : k \in {k \in 1..(j - 1) : t[k] = c}})],
           1, Len(t) + 1)

RECURSIVE LcsFrom(_, _, _, _)
\* prev is the row for the first i - 1 characters of s; once all of t is a
\* common subsequence no longer one exists
LcsFrom(s, t, i, prev) ==
    IF i > Len(s) \/ prev[Len(t) + 1] = Len(t) THEN prev[Len(t) + 1]
    ELSE LcsFrom(s, t, i + 1, LcsRow(prev, s[i], t))

\* length of a longest common subsequence
Lcs(s, t) == LcsFrom(s, t, 1, [j \in 1..(Len(t) + 1) |-> 0])

\* Indel.distance: insertions and deletions turning s into t
IndelDistance(s, t) == Len(s) + Len(t) - 2 * Lcs(s, t)

\* 100 - 100 * dist / lensum
NormDistance(dist, lensum) ==
    IF lensum > 0 THEN Rat(100 * (lensum - dist), lensum) ELSE Rat(100, 1)

\* the three ratios of token_set_ratio, from the lengths of the joined
\* intersection and differences and the distance of the two differences
TokenSetRatios(sect_len, ab_len, ba_len, dist) ==
    LET sep == IF sect_len # 0 THEN 1 ELSE 0
        sect_ab_len == sect_len + sep + ab_len
        sect_ba_len == sect_len + sep + ba_len
        result == NormDistance(dist, sect_ab_len + sect_ba_len)
        sect_ab_ratio == NormDistance(sep + ab_len, sect_len + sect_ab_len)
        sect_ba_ratio == NormDistance(sep + ba_len, sect_len + sect_ba_len)
    IN  IF sect_len = 0 THEN result
        ELSE RatMax(RatMax(result, sect_ab_ratio), sect_ba_ratio)

TokenSetJoined(intersect, diff_ab_joined, diff_ba_joined) ==
    IF intersect # {} /\ (diff_ab_joined = << >> \/ diff_ba_joined = << >>)
    THEN Rat(100, 1)
    ELSE TokenSetRatios(Len(join(sorted(intersect))),
                        Len(diff_ab_joined), Len(diff_ba_joined),
                        IndelDistance(diff_ab_joined, diff_ba_joined))

TokenSetOf(tokens_a, tokens_b) ==
    IF tokens_a = {} \/ tokens_b = {} THEN Rat(0, 1)
    ELSE TokenSetJoined(tokens_a \cap tokens_b,
                        join(sorted(tokens_a \ tokens_b)),
                        join(sorted(tokens_b \ tokens_a)))

token_set_ratio(s1, s2) == TokenSetOf(SeqToSet(split(s1)), SeqToSet(split(s2)))

NoMatchFound == [found |-> FALSE, score |-> Rat(0, 1), idx |-> 0]

\* the first position of the highest score
FirstHighest(scores) ==
    CHOOSE i \in 1..Len(scores) :
        /\ \A j \in 1..Len(scores) : RatLe(scores[j], scores[i])
        /\ \A j \in 1..(i - 1) : RatLt(scores[j], scores[i])

ExtractFrom(scores, best) == [found |-> TRUE, score |-> scores[best], idx |-> best]

ExtractBest(scores) ==
    IF scores = << >> THEN NoMatchFound ELSE ExtractFrom(scores, FirstHighest(scores))

\* process.extractOne(query, choices, scorer=fuzz.token_set_ratio): the first
\* choice with the highest score, no result for an empty choice list
extractOne(query, choices) ==
    ExtractBest([i \in 1..Len(choices) |-> token_set_ratio(query, choices[i])])

(***************************************************************************)
(* Bounds and input pools                                                  *)
(***************************************************************************)
MaxCand == 2

MaxAlias == 2

\* min_score values a caller may pass; 82 is the default of the code
MinScores == {0, 82, 101}

DefaultMinScore == 82

\* the fixed acceptance threshold 0.60 of the fallback path
FallbackThreshold == Rat(3, 5)

Louvre == <<"L", "o", "u", "v", "r", "e">>

MuseeDuLouvre ==
    <<"M", "u", "s", "é", "e", " ", "d", "u", " ", "L", "o", "u", "v", "r", "e">>

LouvreMuseum ==
    <<"L", "o", "u", "v", "r", "e", " ", "M", "u", "s", "e", "u", "m">>

Louvre2 == <<"L", "o", "u", "v", "r", "e", " ", "2">>

TwoLouvre == <<"2", " ", "L", "o", "u", "v", "r", "e">>

Orsay == <<"O", "r", "s", "a", "y">>

Orsay2 == <<"O", "r", "s", "a", "y", " ", "2">>

TwoOrsay == <<"2", " ", "O", "r", "s", "a", "y">>

Orsy2 == <<"O", "r", "s", "y", " ", "2">>

LaTour == <<"L", "a", " ", "T", "o", "u", "r">>

Tour == <<"T", "o", "u", "r">>

\* rows of the Google CSV: name, rating, review_count, place_link
GoogleRow(name, rating, reviews, link) ==
    [name |-> name, rating |-> rating, review_count |-> reviews, place_link |-> link]

GooglePool ==
    { GoogleRow(Louvre, "4.7", "900", "g/louvre"),
      GoogleRow(MuseeDuLouvre, "4.6", "", "g/musee-du-louvre"),
      GoogleRow(Orsay2, "4.8", "300", "g/orsay2"),
      GoogleRow(Louvre2, "", "", "g/louvre2"),
      GoogleRow(LaTour, "4.1", "12", "g/la-tour") }

AliasPool == {LouvreMuseum, TwoLouvre, TwoOrsay, Orsy2, Orsay, Tour, LaTour}

RECURSIVE SeqsUpTo(_, _)
SeqsUpTo(S, n) ==
    IF n = 0 THEN {<< >>}
    ELSE LET shorter == SeqsUpTo(S, n - 1)
         IN  shorter \cup {Append(s, x) : s \in {t \in shorter : Len(t) = n - 1}, x \in S}

(***************************************************************************)
(* State                                                                   *)
(***************************************************************************)
VARIABLES
    HAS_RAPIDFUZZ,  \* whether the import of rapidfuzz succeeded
    df_g_columns,   \* columns of the Google CSV
    df_fr_columns,  \* columns of the French CSV
    df_en_columns,  \* columns of the translated (English) CSV
    df_g,           \* rows of the Google CSV
    fr_by_url,      \* dict: url -> French name
    fr_by_name,     \* the names of the French CSV (keys of the dict)
    g_names,        \* df_g["name"].tolist()
    g_norm,         \* normalized key of every candidate
    g_exact,        \* dict: non-empty normalized key -> candidate index
    df_en,          \* the rows of the translated CSV iterated so far
    gis,            \* the match result gi of every iterated row
    passes,         \* the pass of find_best_google_match that returned it
    google_rating,
    google_review_count,
    place_link_google_map,
    not_found,
    out_records,    \* the records written to OUT_CSV and OUT_JSON
    merge_stdout,   \* what the merge run printed
    error,          \* the exception that ended the run
    pcMerge,        \* position of the merge script
    aliases,        \* arguments and result of one call of
    min_score,      \*   find_best_google_match
    result,
    pcMatch,
    raw_data,       \* the rows of INPUT_FILE iterated so far
    kept,           \* for every iterated row, whether it was appended
    cleaned_data,
    removed_count,
    stdout,         \* what the cleaning run printed
    output_json,    \* the records written to OUTPUT_JSON
    csv_data,       \* the rows written to OUTPUT_CSV
    pcClean,        \* position of the cleaning script
    name_a,         \* arguments and results of calls of normalize_name and
    name_b,         \*   simple_token_similarity on their own
    key_a,
    key_b,
    key_again,
    similarity,
    pcNorm,
    price_parts,    \* the parts a drawn price string is made of
    price_str,      \* argument and result of a call of clean_price
    extracted,
    pcPrice,
    text,           \* argument and results of calls of clean_text
    cleaned,
    cleaned_again,
    pcText,
    frames,         \* the rows of the input files read so far, cleaned
    files_read,     \* how many of INPUT_FILES were read
    g_out,          \* the frame `out` of the Google rows
    google_cleaned, \* the rows written to OUT_CSV and OUT_JSON
    dedup_error,    \* the exception that ended the deduplication
    pcDedup,        \* position of the deduplication script
    redirected_names, \* the input names of the redirect log
    ref_dict,       \* dict: name -> lat and lng of the reference dataset
    df_wiki,        \* the rows of the wiki dataset
    is_correct,     \* the verdict of verify_row for the rows applied so far
    verified_csv,   \* the rows written to OUTPUT_FILE
    coord_stdout,   \* what the coordinate verification printed
    pcCoord,        \* position of the coordinate verification
    df_read,        \* the rows read from INPUT_FILE by the LLM verification
    df,             \* the rows of the LLM verification, is_correct updated
    row_index,      \* the number of rows the loop of the LLM verification has passed
    requests,       \* the rows the model was asked about, one entry per request
    retries,        \* the rate limit errors of the running call
    response,       \* what the last request to the model gave
    llm_csv,        \* the rows written to OUTPUT_FILE
    pcLLM,          \* position of the LLM verification
    json_data,      \* the records read from the cleaned JSON file
    batch_start,    \* the index i of the batch loop of the translation
    attempt,        \* the attempts made for the running batch
    batch_results,  \* per batch: the calls made and what the retry loop returned
    translated_data, \* the records collected by the translation
    translated_json, \* the records written to the translated JSON file
    pcTrans,        \* position of the translation
    text_content,   \* the argument of match_category
    iteration_order, \* the iteration order of the category set in one process
    category,       \* what match_category returned in that process
    other_order,    \* the iteration order of the category set in another process
    other_category, \* what match_category returned in the other process
    pcCat           \* position of the two calls of match_category

matchVars == <<aliases, min_score, result, pcMatch>>

columnVars == <<df_g_columns, df_fr_columns, df_en_columns>>

frVars == <<fr_by_url, fr_by_name>>

indexVars == <<df_g, g_names, g_norm, g_exact>>

loopVars == <<df_en, gis, passes, google_rating, google_review_count, place_link_google_map, not_found>>

mergeVars ==
    <<HAS_RAPIDFUZZ, columnVars, frVars, indexVars, loopVars, out_records, merge_stdout,
      error, pcMerge>>

cleanLoopVars == <<raw_data, kept, cleaned_data, removed_count>>

cleanVars == <<cleanLoopVars, stdout, output_json, csv_data, pcClean>>

normVars == <<name_a, name_b, key_a, key_b, key_again, similarity, pcNorm>>

\* the variables of the calls of single functions
priceVars == <<price_parts, price_str, extracted, pcPrice>>

textVars == <<text, cleaned, cleaned_again, pcText>>

dedupVars == <<frames, files_read, g_out, google_cleaned, dedup_error, pcDedup>>

coordVars ==
    <<redirected_names, ref_dict, df_wiki, is_correct, verified_csv, coord_stdout, pcCoord>>

llmVars == <<df_read, df, row_index, requests, retries, response, llm_csv, pcLLM>>

transVars ==
    <<json_data, batch_start, attempt, batch_results, translated_data, translated_json, pcTrans>>

catVars == <<text_content, iteration_order, category, other_order, other_category, pcCat>>

\* the variables of the other scripts
scriptVars == <<dedupVars, coordVars, llmVars, transVars, catVars>>

baseVars == <<mergeVars, matchVars, cleanVars, normVars, priceVars, textVars>>

notDedupVars == <<baseVars, coordVars, llmVars, transVars, catVars>>

notCoordVars == <<baseVars, dedupVars, llmVars, transVars, catVars>>

notLLMVars == <<baseVars, dedupVars, coordVars, transVars, catVars>>

notTransVars == <<baseVars, dedupVars, coordVars, llmVars, catVars>>

notCatVars == <<baseVars, dedupVars, coordVars, llmVars, transVars>>

callVars == <<normVars, priceVars, textVars, scriptVars>>

vars == <<mergeVars, matchVars, cleanVars, callVars>>

(***************************************************************************)
(* Candidate index: lines 118-126                                          *)
(***************************************************************************)
\* mutant: the empty key is inserted like any other key
RECURSIVE BuildExactFrom_EmptyKeys(_, _, _)
BuildExactFrom_EmptyKeys(norms, i, exact) ==
    IF i > Len(norms) THEN exact
    ELSE LET nn == norms[i]
         IN  IF nn \notin DOMAIN exact
             THEN BuildExactFrom_EmptyKeys(norms, i + 1, exact @@ (nn :> i))
             ELSE BuildExactFrom_EmptyKeys(norms, i + 1, exact)

RECURSIVE BuildExactFrom(_, _, _)
BuildExactFrom(norms, i, exact) ==
    IF i > Len(norms) THEN exact
    ELSE LET nn == norms[i]
         IN  IF nn # << >> /\ nn \notin DOMAIN exact
             THEN BuildExactFrom(norms, i + 1, exact @@ (nn :> i))
             ELSE BuildExactFrom(norms, i + 1, exact)

\* the empty dict
EmptyDict == [k \in {} |-> None]

BuildExact(norms) == BuildExactFrom(norms, 1, EmptyDict)

\* The content of a CSV file is an input of the run: the model draws it at
\* the statement that first uses it, here df_g["name"].tolist().
BuildIndex ==
    /\ pcMerge = "index"
    /\ \E rows \in SeqsUpTo(GooglePool, MaxCand) :
          /\ df_g' = rows
          /\ g_names' = [i \in 1..Len(rows) |-> rows[i].name]
          /\ g_norm' = [i \in 1..Len(rows) |-> normalize_name(rows[i].name)]
    /\ g_exact' = BuildExact(g_norm')
    /\ pcMerge' = "loop"
    /\ UNCHANGED <<HAS_RAPIDFUZZ, columnVars, frVars, loopVars, out_records,
                   merge_stdout, error, matchVars, cleanVars, callVars>>

(***************************************************************************)
(* find_best_google_match: lines 128-171                                   *)
(***************************************************************************)
RECURSIVE ExactPassFrom(_, _)
ExactPassFrom(als, i) ==
    IF i > Len(als) THEN None
    ELSE LET nn == normalize_name(als[i])
         IN  IF nn # << >> /\ nn \in DOMAIN g_exact
             THEN g_exact[nn]
             ELSE ExactPassFrom(als, i + 1)

\* mutant: an exact hit is found but not returned
ExactPass_NoReturn(als) == None

\* mutant: only the first alias is looked up
ExactPass_FirstAliasOnly(als) ==
    IF als = << >> THEN None ELSE ExactPassFrom(<<als[1]>>, 1)

\* 1) exact normalized match
ExactPass(als) == ExactPassFrom(als, 1)

NoBest == [i |-> None, score |-> Rat(-1, 1)]

\* lines 158-160: the best pair is accepted at the threshold
Accept(best, threshold) ==
    IF best.i # None /\ RatLe(threshold, best.score) THEN best.i ELSE None

\* lines 153-157: a strictly higher score replaces the best pair
BetterMatch(best, match) ==
    IF match.found /\ RatLt(best.score, match.score)
    THEN [i |-> match.idx, score |-> match.score]
    ELSE best

\* lines 144-157: one alias of the rapidfuzz loop
RapidfuzzStep(best, query) ==
    IF query = << >> THEN best ELSE BetterMatch(best, extractOne(query, g_norm))

RECURSIVE RapidfuzzLoop(_, _, _)
RapidfuzzLoop(als, k, best) ==
    IF k > Len(als) THEN best
    ELSE RapidfuzzLoop(als, k + 1, RapidfuzzStep(best, normalize_name(als[k])))

\* mutant: the rapidfuzz score is compared with the fallback threshold
RapidfuzzPass_FallbackThreshold(als, minScore) ==
    Accept(RapidfuzzLoop(als, 1, NoBest), FallbackThreshold)

\* 2) fuzzy match with rapidfuzz
RapidfuzzPass(als, minScore) == Accept(RapidfuzzLoop(als, 1, NoBest), Rat(minScore, 1))

\* mutant: a later candidate with an equal score replaces the best one
BetterScore_LastTie(best, i, score) ==
    IF RatLe(best.score, score) THEN [i |-> i, score |-> score] ELSE best

\* lines 168-170: a strictly higher score replaces the best pair
BetterScore(best, i, score) ==
    IF RatLt(best.score, score) THEN [i |-> i, score |-> score] ELSE best

RECURSIVE FallbackInner(_, _, _)
FallbackInner(a, i, best) ==
    IF i > Len(g_names) THEN best
    ELSE FallbackInner(a, i + 1,
                       BetterScore(best, i, simple_token_similarity(a, g_names[i])))

RECURSIVE FallbackLoop(_, _, _)
FallbackLoop(als, k, best) ==
    IF k > Len(als) THEN best
    ELSE FallbackLoop(als, k + 1, FallbackInner(als[k], 1, best))

\* line 171: best_i if best_score >= 0.60 else None
AcceptFallback(best) == IF RatLe(FallbackThreshold, best.score) THEN best.i ELSE None

\* 3) fallback: token Jaccard on normalized tokens
FallbackPass(als) == AcceptFallback(FallbackLoop(als, 1, NoBest))

\* mutant: a candidate an earlier row was matched with is not returned again
find_best_google_match_OneToOne(als, minScore) ==
    IF ExactPass(als) # None
    THEN IF ExactPass(als) \in SeqToSet(gis) THEN None ELSE ExactPass(als)
    ELSE IF HAS_RAPIDFUZZ
         THEN IF RapidfuzzPass(als, minScore) \in SeqToSet(gis) THEN None
              ELSE RapidfuzzPass(als, minScore)
         ELSE IF FallbackPass(als) \in SeqToSet(gis) THEN None ELSE FallbackPass(als)

find_best_google_match(als, minScore) ==
    LET exact == ExactPass(als)
    IN  IF exact # None THEN exact
        ELSE IF HAS_RAPIDFUZZ THEN RapidfuzzPass(als, minScore)
        ELSE FallbackPass(als)

\* the return statement of find_best_google_match that ends the call: line
\* 137 (exact), 158-160 (rapidfuzz) or 171 (Jaccard fallback)
PassTaken(als) ==
    IF ExactPass(als) # None THEN "exact"
    ELSE IF HAS_RAPIDFUZZ THEN "rapidfuzz"
    ELSE "jaccard"

\* one call of find_best_google_match on the built index
CallFindBest ==
    /\ pcMerge = "loop"
    /\ pcMatch = "idle"
    /\ \E als \in SeqsUpTo(AliasPool, MaxAlias), ms \in MinScores :
          /\ aliases' = als
          /\ min_score' = ms
          /\ result' = find_best_google_match(als, ms)
    /\ pcMatch' = "done"
    /\ UNCHANGED <<mergeVars, cleanVars, callVars>>

NoError == [type |-> "", column |-> "", source |-> ""]

NoFile == <<"no file">>

\* the merge script before its first statement
MergeIdle ==
    /\ HAS_RAPIDFUZZ = FALSE
    /\ df_g_columns = {}
    /\ df_fr_columns = {}
    /\ df_en_columns = {}
    /\ df_g = << >>
    /\ fr_by_url = EmptyDict
    /\ fr_by_name = {}
    /\ g_names = << >>
    /\ g_norm = << >>
    /\ g_exact = EmptyDict
    /\ df_en = << >>
    /\ gis = << >>
    /\ passes = << >>
    /\ google_rating = << >>
    /\ google_review_count = << >>
    /\ place_link_google_map = << >>
    /\ not_found = << >>
    /\ out_records = NoFile
    /\ merge_stdout = << >>
    /\ error = NoError
    /\ pcMerge = "import"

\* the cleaning script has not been started
CleanIdle ==
    /\ raw_data = << >> /\ kept = << >> /\ cleaned_data = << >>
    /\ removed_count = 0
    /\ stdout = << >>
    /\ output_json = NoFile /\ csv_data = NoFile
    /\ pcClean = "start"

\* no single function has been called
NormIdle ==
    /\ name_a = << >> /\ name_b = << >>
    /\ key_a = << >> /\ key_b = << >> /\ key_again = << >>
    /\ similarity = <<Rat(0, 1), Rat(0, 1)>>
    /\ pcNorm = "idle"

NoParts == [prefix |-> << >>, int |-> << >>, sep |-> << >>, frac |-> << >>, suffix |-> << >>]

PriceIdle ==
    /\ price_parts = NoParts
    /\ price_str = NoneValue /\ extracted = NoFloat
    /\ pcPrice = "idle"

TextIdle ==
    /\ text = NoneValue /\ cleaned = NoneValue /\ cleaned_again = NoneValue
    /\ pcText = "idle"

DedupIdle ==
    /\ frames = << >> /\ files_read = 0 /\ g_out = << >>
    /\ google_cleaned = NoFile /\ dedup_error = ""
    /\ pcDedup = "idle"

CoordIdle ==
    /\ redirected_names = {} /\ ref_dict = << >>
    /\ df_wiki = << >> /\ is_correct = << >>
    /\ verified_csv = NoFile /\ coord_stdout = << >>
    /\ pcCoord = "idle"

NoResponse == [kind |-> "none", text |-> << >>, answer |-> << >>]

LLMIdle ==
    /\ df_read = << >> /\ df = << >> /\ row_index = 0
    /\ requests = << >> /\ retries = 0 /\ response = NoResponse
    /\ llm_csv = << >> /\ pcLLM = "idle"

TransIdle ==
    /\ json_data = << >> /\ batch_start = 0 /\ attempt = 0
    /\ batch_results = << >> /\ translated_data = << >> /\ translated_json = << >>
    /\ pcTrans = "idle"

CatIdle ==
    /\ text_content = << >> /\ iteration_order = << >> /\ category = << >>
    /\ other_order = << >> /\ other_category = << >>
    /\ pcCat = "idle"

\* no other script runs
ScriptIdle == DedupIdle /\ CoordIdle /\ LLMIdle /\ TransIdle /\ CatIdle

CallIdle == NormIdle /\ PriceIdle /\ TextIdle /\ ScriptIdle

MatchIdle ==
    /\ aliases = << >>
    /\ min_score = DefaultMinScore
    /\ result = None
    /\ pcMatch = "idle"

\* the state in which the candidate index is about to be built
InitMatch ==
    /\ HAS_RAPIDFUZZ \in BOOLEAN
    /\ df_g_columns = {}
    /\ df_fr_columns = {}
    /\ df_en_columns = {}
    /\ df_g = << >>
    /\ fr_by_url = EmptyDict
    /\ fr_by_name = {}
    /\ g_names = << >>
    /\ g_norm = << >>
    /\ g_exact = EmptyDict
    /\ df_en = << >>
    /\ gis = << >>
    /\ passes = << >>
    /\ google_rating = << >>
    /\ google_review_count = << >>
    /\ place_link_google_map = << >>
    /\ not_found = << >>
    /\ out_records = NoFile
    /\ merge_stdout = << >>
    /\ error = NoError
    /\ pcMerge = "index"
    /\ MatchIdle
    /\ CleanIdle
    /\ CallIdle

NextMatch == BuildIndex \/ CallFindBest

\* the candidate index is built and find_best_google_match is called once
SpecMatch == InitMatch /\ [][NextMatch]_vars

(***************************************************************************)
(* The merge run: module-level statements of                               *)
(* merge_paris_monuments_with_google_rating.py                             *)
(***************************************************************************)
MaxRows == 2

MaxFr == 2

\* how many expected columns the three inputs may lack altogether
MaxMissing == 1

GoogleRequired == <<"name", "rating", "review_count", "place_link">>

EnRequired ==
    <<"name", "url", "short_description", "ticket_price", "ticket_price_conditions",
      "opening_hours", "payment_methods", "address", "visiting_services",
      "ticket_price_raw">>

\* the columns of the French CSV the script reads
FrUsed == <<"url", "name">>

SourceColumns(source, required) == {<<source, required[i]>> : i \in 1..Len(required)}

AllColumns ==
    SourceColumns("g", GoogleRequired) \cup SourceColumns("fr", FrUsed)
        \cup SourceColumns("en", EnRequired)

\* the columns of a source that are not in the set M of missing columns
Present(source, required, M) ==
    {required[i] : i \in {j \in 1..Len(required) : <<source, required[j]>> \notin M}}

\* rows of the translated CSV; the cell of payment_methods is written as the
\* sequence of the items that the cleaner joined with " | "
EnRow(name, url, address, methods) ==
    [name |-> name, url |-> url, short_description |-> "text", ticket_price |-> "0.0",
     ticket_price_conditions |-> "", opening_hours |-> "", payment_methods |-> methods,
     address |-> address, visiting_services |-> "", ticket_price_raw |-> ""]

EnPool ==
    { EnRow(LouvreMuseum, "u/louvre", "Rue de Rivoli", <<"Carte Bancaire">>),
      EnRow(Orsy2, "u/orsay", "Rue de Lille", << >>),
      EnRow(Tour, "u/tour", "Champ de Mars", <<"Cash", "Cash">>),
      EnRow(<< >>, "u/louvre", "", <<"Cash", "Carte Bancaire">>) }

\* rows of the French CSV
FrRow(url, name) == [url |-> url, name |-> name]

FrPool ==
    { FrRow("u/louvre", MuseeDuLouvre),
      FrRow("u/orsay", TwoOrsay),
      FrRow("", LaTour) }

\* lines 8-12: the import of rapidfuzz succeeds or fails
Import ==
    /\ pcMerge = "import"
    /\ HAS_RAPIDFUZZ' \in BOOLEAN
    /\ pcMerge' = "load"
    /\ UNCHANGED <<columnVars, frVars, indexVars, loopVars, out_records,
                   merge_stdout, error, matchVars, cleanVars, callVars>>

\* lines 73-75: the three CSV files are read
LoadData ==
    /\ pcMerge = "load"
    /\ \E M \in {S \in SUBSET AllColumns : Cardinality(S) <= MaxMissing} :
          /\ df_g_columns' = Present("g", GoogleRequired, M)
          /\ df_fr_columns' = Present("fr", FrUsed, M)
          /\ df_en_columns' = Present("en", EnRequired, M)
    /\ pcMerge' = "check_g"
    /\ UNCHANGED <<HAS_RAPIDFUZZ, frVars, indexVars, loopVars, out_records,
                   merge_stdout, error, matchVars, cleanVars, callVars>>

\* the first required column that is not among the columns, 0 if none
FirstMissing(required, columns) ==
    IF \A i \in 1..Len(required) : required[i] \in columns THEN 0
    ELSE CHOOSE i \in 1..Len(required) :
            /\ required[i] \notin columns
            /\ \A j \in 1..(i - 1) : required[j] \in columns

\* raise ValueError(f"{source} missing required column: {col}")
RaiseMissing(source, col) ==
    /\ error' = [type |-> "ValueError", column |-> col, source |-> source]
    /\ pcMerge' = "error"

\* mutant: a missing column is not reported
CheckColumns_NoRaise(source, required, missing, next) ==
    pcMerge' = next /\ UNCHANGED error

\* the check of one source, continuing at position next
CheckColumns(source, required, missing, next) ==
    IF missing # 0
    THEN RaiseMissing(source, required[missing])
    ELSE pcMerge' = next /\ UNCHANGED error

\* lines 78-80
CheckGoogleColumns ==
    /\ pcMerge = "check_g"
    /\ CheckColumns("Google CSV", GoogleRequired,
                    FirstMissing(GoogleRequired, df_g_columns), "check_en")
    /\ UNCHANGED <<HAS_RAPIDFUZZ, columnVars, frVars, indexVars, loopVars, out_records,
                   merge_stdout, matchVars, cleanVars, callVars>>

\* lines 82-85
CheckEnColumns ==
    /\ pcMerge = "check_en"
    /\ CheckColumns("Translated CSV", EnRequired,
                    FirstMissing(EnRequired, df_en_columns), "fr_maps")
    /\ UNCHANGED <<HAS_RAPIDFUZZ, columnVars, frVars, indexVars, loopVars, out_records,
                   merge_stdout, matchVars, cleanVars, callVars>>

\* d[k] = v
DictPut(d, k, v) == [x \in DOMAIN d \cup {k} |-> IF x = k THEN v ELSE d[x]]

RECURSIVE UrlDictFrom(_, _, _)
UrlDictFrom(rows, i, d) ==
    IF i > Len(rows) THEN d
    ELSE IF rows[i].url # ""
         THEN UrlDictFrom(rows, i + 1, DictPut(d, rows[i].url, rows[i].name))
         ELSE UrlDictFrom(rows, i + 1, d)

\* line 92: {u: n for u, n in zip(df_fr["url"], df_fr["name"]) if u}
UrlDict(rows) == UrlDictFrom(rows, 1, EmptyDict)

\* lines 90-94: the content of the French CSV is drawn here, where it is
\* first used; df_fr["name"] raises KeyError when the column is absent
BuildFrMapsOf(pool) ==
    /\ pcMerge = "fr_maps"
    /\ \E rows \in SeqsUpTo(pool, MaxFr) :
          IF "url" \in df_fr_columns /\ "name" \notin df_fr_columns
          THEN /\ error' = [type |-> "KeyError", column |-> "name", source |-> ""]
               /\ pcMerge' = "error"
               /\ UNCHANGED frVars
          ELSE /\ fr_by_url' = IF "url" \in df_fr_columns THEN UrlDict(rows) ELSE EmptyDict
               /\ fr_by_name' = IF "name" \in df_fr_columns
                                THEN {rows[i].name : i \in 1..Len(rows)}
                                ELSE {}
               /\ pcMerge' = "index"
               /\ UNCHANGED error
    /\ UNCHANGED <<HAS_RAPIDFUZZ, columnVars, indexVars, loopVars, out_records,
                   merge_stdout, matchVars, cleanVars, callVars>>

RECURSIVE UniqueFrom(_, _, _)
UniqueFrom(als, i, out) ==
    IF i > Len(als) THEN out
    ELSE IF als[i] # << >> /\ als[i] \notin SeqToSet(out)
         THEN UniqueFrom(als, i + 1, Append(out, als[i]))
         ELSE UniqueFrom(als, i + 1, out)

\* mutant: the list is returned as collected
Unique_Kept(als) == als

\* lines 108-115: return unique, keep order
Unique(als) == UniqueFrom(als, 1, << >>)

\* lines 100-107
AliasList(en_name, fr_name) ==
    LET first == IF en_name # << >> THEN <<en_name>> ELSE << >>
        second == IF fr_name # << >> THEN Append(first, fr_name) ELSE first
    IN  IF en_name \in fr_by_name /\ en_name \notin SeqToSet(second)
        THEN Append(second, en_name)
        ELSE second

get_aliases_for_en_row(row) ==
    Unique(AliasList(row.name,
                     IF row.url \in DOMAIN fr_by_url THEN fr_by_url[row.url] ELSE << >>))

BuildFrMaps == BuildFrMapsOf(FrPool)

\* rows of the French CSV with a name that is also an English name, and
\* with no name
AliasFrPool == FrPool \cup {FrRow("u/tour", Tour), FrRow("u/jardin", << >>)}

BuildAliasMaps == BuildFrMapsOf(AliasFrPool)

\* line 180: the aliases of one row of the translated CSV
GetAliases ==
    /\ pcMerge = "index"
    /\ pcMatch = "idle"
    /\ \E row \in EnPool :
          /\ df_en' = <<row>>
          /\ aliases' = get_aliases_for_en_row(row)
    /\ pcMatch' = "done"
    /\ UNCHANGED <<HAS_RAPIDFUZZ, columnVars, frVars, indexVars, gis, passes, google_rating,
                   google_review_count, place_link_google_map, not_found, out_records,
                   merge_stdout, error, pcMerge, min_score, result, cleanVars, callVars>>

\* the merge script with its CSV files read, before line 88
InitAlias ==
    /\ HAS_RAPIDFUZZ = FALSE
    /\ df_g_columns = {} /\ df_en_columns = {}
    /\ df_fr_columns \in {{"url", "name"}, {"name"}, {"url"}, {}}
    /\ df_g = << >> /\ fr_by_url = EmptyDict /\ fr_by_name = {}
    /\ g_names = << >> /\ g_norm = << >> /\ g_exact = EmptyDict
    /\ df_en = << >> /\ gis = << >> /\ passes = << >>
    /\ google_rating = << >> /\ google_review_count = << >>
    /\ place_link_google_map = << >> /\ not_found = << >>
    /\ out_records = NoFile /\ merge_stdout = << >> /\ error = NoError
    /\ pcMerge = "fr_maps"
    /\ MatchIdle /\ CleanIdle /\ CallIdle

NextAlias == BuildAliasMaps \/ GetAliases

\* calls of get_aliases_for_en_row on the maps of a French CSV
SpecAlias == InitAlias /\ [][NextAlias]_vars

\* a line of the standard output of the merge run
Printed(msg, name, url) == [msg |-> msg, name |-> name, url |-> url]

\* mutant: every row is reported as not found
Attach_AlwaysReported(row, gi) ==
    /\ df_en' = Append(df_en, row)
    /\ gis' = Append(gis, gi)
    /\ not_found' = Append(not_found, [name |-> row.name, url |-> row.url])
    /\ merge_stdout' = Append(merge_stdout, Printed("NOT_FOUND", row.name, row.url))
    /\ IF gi = None
       THEN /\ google_rating' = Append(google_rating, "")
            /\ google_review_count' = Append(google_review_count, "")
            /\ place_link_google_map' = Append(place_link_google_map, "")
       ELSE /\ google_rating' = Append(google_rating, df_g[gi].rating)
            /\ google_review_count' = Append(google_review_count, df_g[gi].review_count)
            /\ place_link_google_map' = Append(place_link_google_map, df_g[gi].place_link)

\* lines 183-196: the Google fields of one row
Attach(row, gi) ==
    /\ df_en' = Append(df_en, row)
    /\ gis' = Append(gis, gi)
    /\ IF gi = None
       THEN /\ merge_stdout' = Append(merge_stdout, Printed("NOT_FOUND", row.name, row.url))
            /\ not_found' = Append(not_found, [name |-> row.name, url |-> row.url])
            /\ google_rating' = Append(google_rating, "")
            /\ google_review_count' = Append(google_review_count, "")
            /\ place_link_google_map' = Append(place_link_google_map, "")
       ELSE /\ google_rating' = Append(google_rating, df_g[gi].rating)
            /\ google_review_count' = Append(google_review_count, df_g[gi].review_count)
            /\ place_link_google_map' = Append(place_link_google_map, df_g[gi].place_link)
            /\ UNCHANGED <<not_found, merge_stdout>>

\* lines 179-196: one iteration of the merge loop; the next row of the
\* translated CSV is drawn when the loop reaches it
MergeRow ==
    /\ pcMerge = "loop"
    /\ Len(df_en) < MaxRows
    /\ \E row \in EnPool :
          /\ Attach(row, find_best_google_match(get_aliases_for_en_row(row), DefaultMinScore))
          /\ passes' = Append(passes, PassTaken(get_aliases_for_en_row(row)))
    /\ UNCHANGED <<HAS_RAPIDFUZZ, columnVars, frVars, indexVars, out_records, error,
                   pcMerge, matchVars, cleanVars, callVars>>

\* lines 204-218: the columns of the output, in order
final_cols ==
    <<"name", "url", "short_description", "ticket_price", "ticket_price_conditions",
      "opening_hours", "payment_methods", "address", "visiting_services",
      "ticket_price_raw", "google_rating", "google_review_count",
      "place_link_google_map">>

\* lines 198-201: df_en.copy() with the three Google columns assigned
WithGoogle(row, i) ==
    [google_rating |-> google_rating[i],
     google_review_count |-> google_review_count[i],
     place_link_google_map |-> place_link_google_map[i]] @@ row

\* mutant: the column of the payment methods is created anew
Project_NewLists(rec) ==
    [c \in SeqToSet(final_cols) |->
        IF c = "payment_methods" THEN << >>
        ELSE IF c \in DOMAIN rec THEN rec[c] ELSE ""]

\* lines 219-223: a column of final_cols that is missing is created empty
Project(rec) ==
    [c \in SeqToSet(final_cols) |-> IF c \in DOMAIN rec THEN rec[c] ELSE ""]

\* mutant: the Google columns are attached to the first row's fields
OutRecord_FirstRow(i) == Project(WithGoogle(df_en[1], i))

\* lines 198-223: the record of row i of df_out
OutRecord(i) == Project(WithGoogle(df_en[i], i))

\* mutant: the last line always reports rapidfuzz
StrategyLine_AlwaysEnabled == Printed("RapidFuzz enabled: True", << >>, "")

\* line 232: print(f"RapidFuzz enabled: {HAS_RAPIDFUZZ}")
StrategyLine ==
    IF HAS_RAPIDFUZZ THEN Printed("RapidFuzz enabled: True", << >>, "")
    ELSE Printed("RapidFuzz enabled: False", << >>, "")

\* lines 198-232: the loop is over, df_out is built and written
WriteOutput ==
    /\ pcMerge = "loop"
    /\ out_records' = [i \in 1..Len(df_en) |-> OutRecord(i)]
    /\ merge_stdout' = merge_stdout \o <<Printed("Wrote", << >>, ""), StrategyLine>>
    /\ pcMerge' = "done"
    /\ UNCHANGED <<HAS_RAPIDFUZZ, columnVars, frVars, indexVars, loopVars, error, matchVars, cleanVars, callVars>>

InitMerge == MergeIdle /\ MatchIdle /\ CleanIdle /\ CallIdle

NextMerge ==
    \/ Import
    \/ LoadData
    \/ CheckGoogleColumns
    \/ CheckEnColumns
    \/ BuildFrMaps
    \/ BuildIndex
    \/ MergeRow
    \/ WriteOutput

\* one run of the merge script
SpecMerge == InitMerge /\ [][NextMerge]_vars

(***************************************************************************)
(* The cleaning run: clean_and_analyse_data.py, main                       *)
(***************************************************************************)
MaxRaw == 3

\* a record of INPUT_FILE as extract_monuments.py writes it
RawRow(name, url, address, price, conditions, methods) ==
    [name |-> name, url |-> url, short_description |-> <<"N", "o", "t", " ", "f", "o", "u", "n", "d">>,
     ticket_price |-> price, ticket_price_conditions |-> conditions,
     opening_hours |-> NoneValue, payment_methods |-> methods,
     address |-> address, visiting_services |-> ListValue(<< >>)]

RawPool ==
    { RawRow(Louvre, "u/louvre", <<"R", "u", "e", " ", "d", "e", " ", "R", "i", "v", "o", "l", "i">>, <<"1", "6", ",", "5", "0", " ", "€">>,
             <<"A", "d", "u", "l", "t", "e", "\n", "-", "2", "6", " ", "a", "n", "s">>, ListValue(<<<<"C", "B">>, << >>, NoneValue, <<"C", "a", "s", "h">>>>)),
      RawRow(Orsay, "u/orsay", <<"R", "u", "e", " ", "d", "e", " ", "L", "i", "l", "l", "e">>, <<"N", "o", "t", " ", "f", "o", "u", "n", "d">>, <<"N", "o", "n", "e">>, NoneList),
      RawRow(<<"N", "a", "m", "e", " ", "n", "o", "t", " ", "f", "o", "u", "n", "d">>, "u/nameless", <<"R", "u", "e", " ", "d", "e", " ", "L", "i", "l", "l", "e">>, <<"G", "r", "a", "t", "u", "i", "t">>, NoneValue,
             ListValue(<<<<"C", "B">>>>)),
      RawRow(Tour, "u/tour", <<" ", " ">>, <<"1", "2">>, << >>, ListValue(<< >>)),
      RawRow(LaTour, "u/la-tour", NoneValue, NoneValue, NoneValue, NoneList),
      RawRow(Louvre2, "u/louvre2", <<"R", "u", "e", " ", "d", "e", " ", "R", "i", "v", "o", "l", "i">>, <<"G", "r", "a", "t", "u", "i", "t">>, NoneValue,
             StrValue(<<"C", "B", "|", "|", "C", "a", "s", "h">>)) }

Msg(msg, n) == [msg |-> msg, n |-> n]

\* lines 61-70: INPUT_FILE is read, or is not there
LoadRaw ==
    /\ pcClean = "start"
    /\ \E found \in BOOLEAN :
          IF found
          THEN /\ stdout' = Append(stdout, Msg("Cleaning Data", 0))
               /\ pcClean' = "loop"
          ELSE /\ stdout' = Append(stdout, Msg("Error: input not found", 0))
               /\ pcClean' = "done"
    /\ UNCHANGED <<cleanLoopVars, output_json, csv_data, mergeVars, matchVars, callVars>>

\* lines 103-112: the filter on the required fields
Filter(row, new_row) ==
    /\ raw_data' = Append(raw_data, row)
    /\ IF Keep(new_row)
       THEN /\ cleaned_data' = Append(cleaned_data, new_row)
            /\ kept' = Append(kept, TRUE)
            /\ UNCHANGED removed_count
       ELSE /\ removed_count' = removed_count + 1
            /\ kept' = Append(kept, FALSE)
            /\ UNCHANGED cleaned_data

\* lines 72-112: one iteration of the loop over raw_data
CleanRow ==
    /\ pcClean = "loop"
    /\ Len(raw_data) < MaxRaw
    /\ \E row \in RawPool : Filter(row, NewRow(row))
    /\ UNCHANGED <<stdout, output_json, csv_data, pcClean, mergeVars, matchVars, callVars>>

\* lines 126-131: csv_row
CsvRow(row) ==
    [row EXCEPT !.payment_methods = Flatten(@), !.visiting_services = Flatten(@)]

\* the keys of a cleaned record, in the order of the dict
FieldKeys ==
    <<"name", "url", "short_description", "ticket_price", "ticket_price_conditions",
      "opening_hours", "payment_methods", "address", "visiting_services",
      "ticket_price_raw">>

\* line 51: value is not None and value != []
FilledField(rec, key) ==
    IF key \in {"payment_methods", "visiting_services"}
    THEN rec[key] # NoneList /\ rec[key] # ListValue(<< >>)
    ELSE IF key \in {"url", "ticket_price"} THEN TRUE
    ELSE rec[key] # NoneValue

\* lines 38-58, analyze_data: the total and, for every field, the number
\* of records that have it filled
Report(data) ==
    <<Msg("Total Valid Records", Len(data))>>
        \o [k \in 1..Len(FieldKeys) |->
               Msg(FieldKeys[k],
                   Cardinality({j \in 1..Len(data) : FilledField(data[j], FieldKeys[k])}))]

\* lines 114-142: the report and the two files, or the error message
Save(data) ==
    IF data # << >>
    THEN /\ output_json' = data
         /\ csv_data' = [i \in 1..Len(data) |-> CsvRow(data[i])]
         /\ stdout' = stdout \o <<Msg("Removed incomplete records", removed_count)>>
                               \o Report(data)
                               \o <<Msg("Saved cleaned JSON", 0), Msg("Saved cleaned CSV", 0)>>
    ELSE /\ stdout' = stdout \o <<Msg("Removed incomplete records", removed_count),
                                  Msg("Error: No valid data remained", 0)>>
         /\ UNCHANGED <<output_json, csv_data>>

\* lines 114-144: the loop is over
SaveClean ==
    /\ pcClean = "loop"
    /\ Save(cleaned_data)
    /\ pcClean' = "done"
    /\ UNCHANGED <<cleanLoopVars, mergeVars, matchVars, callVars>>

InitClean == CleanIdle /\ MergeIdle /\ MatchIdle /\ CallIdle

NextClean == LoadRaw \/ CleanRow \/ SaveClean

\* one run of the cleaning script
SpecClean == InitClean /\ [][NextClean]_vars

(***************************************************************************)
(* The pipeline: the cleaning script and the merge script are separate     *)
(* programs; a behaviour is a run of one of them.                          *)
(***************************************************************************)
InitPipeline == MergeIdle /\ CleanIdle /\ MatchIdle /\ CallIdle

NextPipeline ==
    \/ pcMerge = "import" /\ LoadRaw
    \/ pcMerge = "import" /\ CleanRow
    \/ pcMerge = "import" /\ SaveClean
    \/ pcClean = "start" /\ Import
    \/ pcClean = "start" /\ LoadData
    \/ pcClean = "start" /\ CheckGoogleColumns
    \/ pcClean = "start" /\ CheckEnColumns
    \/ pcClean = "start" /\ BuildFrMaps
    \/ pcClean = "start" /\ BuildIndex
    \/ pcClean = "start" /\ MergeRow
    \/ pcClean = "start" /\ WriteOutput

SpecPipeline == InitPipeline /\ [][NextPipeline]_vars

(***************************************************************************)
(* Calls of normalize_name and simple_token_similarity on drawn names      *)
(***************************************************************************)
\* length of the names drawn character by character
MaxLen == 3

\* number of words of the names drawn word by word
MaxWords == 2

NameChars == {" ", "-", "&", "a", "d", "É"}

WordPool ==
    { Louvre, Orsay, <<"2">>, <<"M", "u", "s", "é", "e">>, <<"d", "u">>,
      <<"S", "t", ".">> }

NameSeparators == { <<" ">>, <<"-">>, <<",", " ">> }

WordNames ==
    {JoinWithFrom(sep, ws, 1) : sep \in NameSeparators, ws \in SeqsUpTo(WordPool, MaxWords)}

NameInputs == SeqsUpTo(NameChars, MaxLen) \cup WordNames \cup {MuseeDuLouvre, LouvreMuseum}

OtherNames == {MuseeDuLouvre, LouvreMuseum, Louvre2, Orsay2, TwoOrsay, LaTour, << >>}

Punctuation == {"-", "'", "."}

\* the characters normalize_name keeps as part of a token
IsLetterOrDigit(c) == IsAlnum(StripAccentChar(LowerChar(c)))

SwapCase(c) ==
    IF InTable(c, UpperChars) THEN LowerChars[IndexOf(c, UpperChars)]
    ELSE IF InTable(c, LowerChars) THEN UpperChars[IndexOf(c, LowerChars)]
    ELSE c

\* a lower-case letter with its diacritic added or removed
SwapAccentLower(c) ==
    IF InTable(c, AccentedChars) THEN BaseChars[IndexOf(c, AccentedChars)]
    ELSE IF InTable(c, BaseChars) THEN AccentedChars[IndexOf(c, BaseChars)]
    ELSE c

SwapAccent(c) ==
    IF InTable(c, UpperChars) THEN SwapCase(SwapAccentLower(LowerChar(c)))
    ELSE SwapAccentLower(c)

InsertAt(s, i, w) == SubSeq(s, 1, i - 1) \o w \o SubSeq(s, i, Len(s))

\* position i of s is at an end of s or next to a character that is no
\* letter and no digit
AtBoundary(s, i) ==
    \/ i = 1 \/ i = Len(s) + 1
    \/ ~IsLetterOrDigit(s[i - 1]) \/ ~IsLetterOrDigit(s[i])

\* the names that differ from s in the case of one letter
CaseVariants(s) == {[s EXCEPT ![i] = SwapCase(s[i])] : i \in 1..Len(s)}

\* the names that differ from s in the diacritic of one letter
AccentVariants(s) == {[s EXCEPT ![i] = SwapAccent(s[i])] : i \in 1..Len(s)}

\* the names that differ from s in one punctuation character that stands
\* between tokens: a blank or punctuation character replaced by another, or
\* a punctuation character added at a boundary
SeparatorVariants(s) ==
    {[s EXCEPT ![i] = p] :
        i \in {j \in 1..Len(s) : s[j] \in Punctuation \cup {" "}}, p \in Punctuation \cup {" "}}
    \cup {InsertAt(s, i, <<p>>) :
             i \in {j \in 1..(Len(s) + 1) : AtBoundary(s, j)}, p \in Punctuation}

\* the names that differ from s in one punctuation character added between
\* two letters or digits
InnerPunctuationVariants(s) ==
    {InsertAt(s, i, <<p>>) :
        i \in {j \in 1..(Len(s) + 1) : ~AtBoundary(s, j)}, p \in Punctuation}

StopwordForms ==
    { <<"d", "u">>, <<"M", "u", "s", "é", "e">>, <<"M", "U", "S", "E", "U", "M">> }

\* the names that differ from s in one stopword token added at a boundary
StopwordVariants(s) ==
    {InsertAt(s, i, <<" ">> \o w \o <<" ">>) :
        i \in {j \in 1..(Len(s) + 1) : AtBoundary(s, j)}, w \in StopwordForms}

Variants(s) ==
    CaseVariants(s) \cup AccentVariants(s) \cup SeparatorVariants(s)
        \cup InnerPunctuationVariants(s) \cup StopwordVariants(s)

\* key = normalize_name(name)
Normalize ==
    /\ pcNorm = "start"
    /\ key_a' = normalize_name(name_a)
    /\ pcNorm' = "key"
    /\ UNCHANGED <<name_a, name_b, key_b, key_again, similarity,
                   mergeVars, matchVars, cleanVars, priceVars, textVars, scriptVars>>

\* normalize_name(key)
NormalizeAgain ==
    /\ pcNorm = "key"
    /\ key_again' = normalize_name(key_a)
    /\ pcNorm' = "again"
    /\ UNCHANGED <<name_a, name_b, key_a, key_b, similarity,
                   mergeVars, matchVars, cleanVars, priceVars, textVars, scriptVars>>

\* normalize_name of a second name
NormalizeOther ==
    /\ pcNorm = "key"
    /\ \E b \in Variants(name_a) \cup OtherNames :
          /\ name_b' = b
          /\ key_b' = normalize_name(b)
    /\ pcNorm' = "pair"
    /\ UNCHANGED <<name_a, key_a, key_again, similarity,
                   mergeVars, matchVars, cleanVars, priceVars, textVars, scriptVars>>

\* simple_token_similarity of the two names, in both orders
Similarity ==
    /\ pcNorm = "pair"
    /\ similarity' = <<simple_token_similarity(name_a, name_b),
                       simple_token_similarity(name_b, name_a)>>
    /\ pcNorm' = "scored"
    /\ UNCHANGED <<name_a, name_b, key_a, key_b, key_again,
                   mergeVars, matchVars, cleanVars, priceVars, textVars, scriptVars>>

InitNormalize ==
    /\ name_a \in NameInputs
    /\ name_b = << >>
    /\ key_a = << >> /\ key_b = << >> /\ key_again = << >>
    /\ similarity = <<Rat(0, 1), Rat(0, 1)>>
    /\ pcNorm = "start"
    /\ MergeIdle /\ MatchIdle /\ CleanIdle /\ PriceIdle /\ TextIdle /\ ScriptIdle

NextNormalize == Normalize \/ NormalizeAgain \/ NormalizeOther \/ Similarity

\* normalize_name and simple_token_similarity applied to drawn names
SpecNormalize == InitNormalize /\ [][NextNormalize]_vars

(***************************************************************************)
(* Calls of clean_price on drawn price strings                             *)
(***************************************************************************)
\* length of the runs of digits of a drawn price string
MaxDigits == 2

PriceDigits == {"0", "1", "5", "6"}

DigitStrings == SeqsUpTo(PriceDigits, MaxDigits)

PricePrefixes ==
    { << >>, <<"T", "a", "r", "i", "f", " ", ":", " ">>, <<"G", "r", "a", "t", "u", "i", "t", " ">>,
      <<"G", "r", "a", "t", "u", "i", "t">>, <<"N", "o", "t", " ", "f", "o", "u", "n", "d">> }

PriceSuffixes == { << >>, <<" ", "€">>, <<" ", "/", " ", "1", "2">> }

\* a price string is prefix, digits, separator, digits, suffix; digits
\* follow the first run only after a separator
PartsPool ==
    { [prefix |-> p, int |-> i, sep |-> s, frac |-> f, suffix |-> x] :
        p \in PricePrefixes, i \in DigitStrings,
        s \in { << >>, <<",">>, <<".">> }, f \in DigitStrings, x \in PriceSuffixes }

PartsInputs == {parts \in PartsPool : parts.sep = << >> => parts.frac = << >>}

Concat(parts) == parts.prefix \o parts.int \o parts.sep \o parts.frac \o parts.suffix

\* extracted_price = clean_price(price_str)
CleanPrice ==
    /\ pcPrice = "start"
    /\ extracted' = clean_price(price_str)
    /\ pcPrice' = "done"
    /\ UNCHANGED <<price_parts, price_str, mergeVars, matchVars, cleanVars, normVars, textVars, scriptVars>>

\* the price string is None only where the parts are all empty
InitPrice ==
    /\ price_parts \in PartsInputs
    /\ price_str \in {Concat(price_parts)}
                        \cup (IF price_parts = NoParts THEN {NoneValue} ELSE {})
    /\ extracted = NoFloat
    /\ pcPrice = "start"
    /\ MergeIdle /\ MatchIdle /\ CleanIdle /\ NormIdle /\ TextIdle /\ ScriptIdle

NextPrice == CleanPrice

\* clean_price applied to drawn price strings
SpecPrice == InitPrice /\ [][NextPrice]_vars

(***************************************************************************)
(* Calls of clean_text on drawn texts                                      *)
(***************************************************************************)
\* length of a text drawn character by character
MaxTextLen == 3

TextChars == {" ", "\t", "a", "B"}

\* placeholders in several spellings, and texts that are none
TextCores ==
    { << >>,
      <<"N", "o", "t", " ", "f", "o", "u", "n", "d">>,
      <<"N", "O", "T", " ", "F", "O", "U", "N", "D">>,
      <<"n", "o", "n", "e">>,
      <<"N", "o", "n", "e">>,
      <<"N", "a", "m", "e", " ", "n", "o", "t", " ", "f", "o", "u", "n", "d">>,
      <<"A", "d", "d", "r", "e", "s", "s", " ", "N", "o", "t", " ", "F", "o", "u", "n", "d">>,
      <<"S", "e", "c", "t", "i", "o", "n", " ", "n", "o", "t", " ", "f", "o", "u", "n", "d">>,
      <<"L", "o", "u", "v", "r", "e">>,
      <<"n", "o", "t", " ", " ", "f", "o", "u", "n", "d">>,
      <<"n", "o", "t", " ", "f", "o", "u", "n", "d", ".">>,
      <<"f", "o", "u", "n", "d">>,
      <<"a", "\t", "B">>,
      <<"n", "o", "n", "e", " ", "o", "f", " ", "i", "t">> }

TextPads == { << >>, <<" ">>, <<"\t", " ">>, <<"\n">> }

TextInputs ==
    {NoneValue}
        \cup SeqsUpTo(TextChars, MaxTextLen)
        \cup {before \o core \o after : before \in TextPads, core \in TextCores, after \in TextPads}

\* cleaned = clean_text(text)
CleanText ==
    /\ pcText = "start"
    /\ cleaned' = clean_text(text)
    /\ pcText' = "cleaned"
    /\ UNCHANGED <<text, cleaned_again, mergeVars, matchVars, cleanVars, normVars, priceVars, scriptVars>>

\* clean_text of the result
CleanTextAgain ==
    /\ pcText = "cleaned"
    /\ cleaned_again' = clean_text(cleaned)
    /\ pcText' = "again"
    /\ UNCHANGED <<text, cleaned, mergeVars, matchVars, cleanVars, normVars, priceVars, scriptVars>>

InitText ==
    /\ text \in TextInputs
    /\ cleaned = NoneValue /\ cleaned_again = NoneValue
    /\ pcText = "start"
    /\ MergeIdle /\ MatchIdle /\ CleanIdle /\ NormIdle /\ PriceIdle /\ ScriptIdle

NextText == CleanText \/ CleanTextAgain

\* clean_text applied to drawn texts
SpecText == InitText /\ [][NextText]_vars

(***************************************************************************)
(* make_paris_monuments_rating_google_cleaned.py: the deduplication of the *)
(* Google rows.  A cell read with dtype=str is a string or NaN             *)
(* (NoneValue); a number is a rational, NaN and <NA> are NoFloat.          *)
(***************************************************************************)
\* total number of rows of the input files
MaxGRows == 3

\* line 7: the number of INPUT_FILES
InputFileCount == 3

\* code point order of the characters of a dedupe key
CodePointChars ==
    <<" ", "/", "0", "1", "2", "3", "4", "5", "6", "7", "8", "9", ":",
      "a", "b", "c", "d", "e", "f", "g", "h", "i", "j", "k", "l", "m", "n",
      "o", "p", "q", "r", "s", "t", "u", "v", "w", "x", "y", "z", "|">>

CodePoint(c) == IndexOf(c, CodePointChars)

\* a < b for two strings, by code points
KeyLess(a, b) ==
    \/ Len(a) < Len(b) /\ SamePrefix(a, b, Len(a) + 1)
    \/ \E i \in 1..Len(a) :
          /\ i <= Len(b)
          /\ SamePrefix(a, b, i)
          /\ CodePoint(a[i]) < CodePoint(b[i])

\* the digits of s before and after the decimal point, for a cell that is
\* digits with at most one point
IsDecimal(s) ==
    /\ s # NoneValue
    /\ \A i \in 1..Len(s) : s[i] \in Digits \cup {"."}
    /\ Cardinality({i \in 1..Len(s) : s[i] = "."}) <= 1
    /\ \E i \in 1..Len(s) : s[i] \in Digits

PointAt(s) ==
    IF \E i \in 1..Len(s) : s[i] = "."
    THEN CHOOSE i \in 1..Len(s) : s[i] = "."
    ELSE Len(s) + 1

\* lines 19-20: pd.to_numeric(series, errors="coerce") on one cell
to_numeric(s) ==
    IF IsDecimal(s)
    THEN FloatOf(SubSeq(s, 1, PointAt(s) - 1), SubSeq(s, PointAt(s) + 1, Len(s)))
    ELSE NoFloat

\* line 56: .round().astype("Int64"), halves go to the even neighbour
Round(x) ==
    IF x = NoFloat THEN NoFloat
    ELSE IF 2 * (x.n % x.d) < x.d THEN Rat(x.n \div x.d, 1)
    ELSE IF 2 * (x.n % x.d) > x.d THEN Rat(x.n \div x.d + 1, 1)
    ELSE IF (x.n \div x.d) % 2 = 0 THEN Rat(x.n \div x.d, 1)
    ELSE Rat(x.n \div x.d + 1, 1)

\* .fillna("").astype(str).str.strip() on one cell
StripCell(s) == IF s = NoneValue THEN << >> ELSE strip(s)

RECURSIVE CollapseFrom(_, _)
\* line 26: every run of whitespace from position i on becomes one space
CollapseFrom(s, i) ==
    IF i > Len(s) THEN << >>
    ELSE IF s[i] \notin Whitespace THEN <<s[i]>> \o CollapseFrom(s, i + 1)
    ELSE IF i > 1 /\ s[i - 1] \in Whitespace THEN CollapseFrom(s, i + 1)
    ELSE <<" ">> \o CollapseFrom(s, i + 1)

\* lines 23-27: norm_text on one cell
norm_text(s) == CollapseFrom(lower(StripCell(s)), 1)

\* a row of an input file, as read
GoogleCells(name, rating, review_count, place_link, place_id, full_address) ==
    [name |-> name, rating |-> rating, review_count |-> review_count,
     place_link |-> place_link, place_id |-> place_id, full_address |-> full_address]

GoogleCellPool ==
    { GoogleCells(<<"L", "o", "u", "v", "r", "e">>, <<"4", ".", "7">>, <<"1", "0", "0">>, <<"g", "/", "1">>, <<"p", "1">>, <<"R", "i", "v", "o", "l", "i">>),
      GoogleCells(<<"L", "O", "U", "V", "R", "E">>, <<"4", ".", "6">>, <<"2", "5", "0">>, <<"g", "/", "2">>, <<" ", "P", "1">>, NoneValue),
      GoogleCells(<<"L", "o", "u", "v", "r", "e">>, <<"4", ".", "9">>, <<"1", "0", "0">>, <<"g", "/", "9">>, <<"p", "1">>, <<"R", "i", "v", "o", "l", "i">>),
      GoogleCells(<<"M", "u", "s", "e", "e">>, <<"4", ".", "9">>, NoneValue, <<"G", " ", "1", " ">>, NoneValue, <<"P", "a", "r", "i", "s">>),
      GoogleCells(<<"M", "u", "s", "e", "e">>, <<"4", ".", "8">>, <<"2", ".", "5">>, <<"g", " ", " ", "1">>, << >>, <<"P", "a", "r", "i", "s">>),
      GoogleCells(<<"L", "e", " ", "M", "u", "s", "e", "e">>, <<"4", ".", "5">>, <<"2">>, <<"g", " ", "1">>, << >>, NoneValue),
      GoogleCells(<< >>, <<"4", ".", "0">>, <<"5">>, <<"g", "/", "3">>, <<"p", "3">>, NoneValue),
      GoogleCells(<<"O", "r", "s", "a", "y">>, <<"n", "/", "a">>, <<"7">>, <<"g", "/", "4">>, <<"p", "4">>, <<"L", "i", "l", "l", "e">>),
      GoogleCells(<<"O", "r", "s", "a", "y">>, <<"4", ".", "4">>, <<"7">>, NoneValue, <<"p", "1">>, <<"L", "i", "l", "l", "e">>) }

\* line 42
required_for_output == {"name", "rating", "review_count", "place_link"}

\* lines 47-62: the cleaned row of a file whose columns lack `absent`
FrameRow(cells, absent) ==
    [name |-> StripCell(cells.name),
     rating |-> to_numeric(cells.rating),
     review_count |-> Round(to_numeric(cells.review_count)),
     place_link |-> StripCell(cells.place_link),
     place_id |-> IF "place_id" \in absent THEN << >> ELSE StripCell(cells.place_id),
     full_address |->
         IF "full_address" \in absent THEN << >> ELSE StripCell(cells.full_address),
     dedupe_key |-> << >>,
     review_count_sort |-> NoFloat]

\* lines 31-33: the input files are there, or the run ends
CheckInputs ==
    /\ pcDedup = "start"
    /\ \E missing \in BOOLEAN :
          IF missing
          THEN /\ dedup_error' = "FileNotFoundError"
               /\ pcDedup' = "error"
          ELSE /\ pcDedup' = "read"
               /\ UNCHANGED dedup_error
    /\ UNCHANGED <<frames, files_read, g_out, google_cleaned, notDedupVars>>

\* lines 38-64: one file is read and cleaned
ReadFile ==
    /\ pcDedup = "read"
    /\ files_read < InputFileCount
    /\ \E rows \in SeqsUpTo(GoogleCellPool, MaxGRows - Len(frames)),
          absent \in {{}, {"place_id"}, {"rating"}} :
          IF absent \cap required_for_output # {}
          THEN /\ dedup_error' = "ValueError"
               /\ pcDedup' = "error"
               /\ UNCHANGED <<frames, files_read>>
          ELSE /\ frames' = frames \o [i \in 1..Len(rows) |-> FrameRow(rows[i], absent)]
               /\ files_read' = files_read + 1
               /\ UNCHANGED <<dedup_error, pcDedup>>
    /\ UNCHANGED <<g_out, google_cleaned, notDedupVars>>

\* mutant: a row without a link is kept
Essential_NoLink(row) == row.name # << >> /\ row.rating # NoFloat

\* lines 69-70: the row has a name, a link and a rating
Essential(row) ==
    row.name # << >> /\ row.place_link # << >> /\ row.rating # NoFloat

\* lines 66-70: the frames are concatenated, rows missing essentials dropped
DropIncomplete ==
    /\ pcDedup = "read"
    /\ files_read = InputFileCount
    /\ g_out' = SelectSeq(frames, Essential)
    /\ pcDedup' = "key"
    /\ UNCHANGED <<frames, files_read, google_cleaned, dedup_error, notDedupVars>>

\* mutant: the link is looked at before the place id
DedupeKey_LinkFirst(row) ==
    IF norm_text(row.place_link) # << >> THEN <<"l", "i", "n", "k", ":">> \o norm_text(row.place_link)
    ELSE IF norm_text(row.place_id) # << >> THEN <<"p", "i", "d", ":">> \o norm_text(row.place_id)
    ELSE <<"n", "a", ":">> \o norm_text(row.name) \o <<"|">> \o norm_text(row.full_address)

\* lines 72-81: place_id, then place_link, then name and address
DedupeKey(row) ==
    IF norm_text(row.place_id) # << >> THEN <<"p", "i", "d", ":">> \o norm_text(row.place_id)
    ELSE IF norm_text(row.place_link) # << >> THEN <<"l", "i", "n", "k", ":">> \o norm_text(row.place_link)
    ELSE <<"n", "a", ":">> \o norm_text(row.name) \o <<"|">> \o norm_text(row.full_address)

\* line 86: review_count.fillna(-1)
ReviewCountSort(row) ==
    IF row.review_count = NoFloat THEN Rat(0 - 1, 1) ELSE row.review_count

\* lines 72-86: the two helper columns
BuildKeys ==
    /\ pcDedup = "key"
    /\ g_out' = [i \in 1..Len(g_out) |->
                    [g_out[i] EXCEPT !.dedupe_key = DedupeKey(g_out[i]),
                                     !.review_count_sort = ReviewCountSort(g_out[i])]]
    /\ pcDedup' = "sort"
    /\ UNCHANGED <<frames, files_read, google_cleaned, dedup_error, notDedupVars>>

\* mutant: within a key the rows are sorted by rating first
RowBefore_RatingFirst(rows, i, j) ==
    \/ KeyLess(rows[i].dedupe_key, rows[j].dedupe_key)
    \/ /\ rows[i].dedupe_key = rows[j].dedupe_key
       /\ \/ RatLt(rows[j].rating, rows[i].rating)
          \/ /\ RatEq(rows[j].rating, rows[i].rating)
             /\ \/ RatLt(rows[j].review_count_sort, rows[i].review_count_sort)
                \/ /\ RatEq(rows[j].review_count_sort, rows[i].review_count_sort)
                   /\ i < j

\* line 87: row i comes before row j: key ascending, review count and rating
\* descending, rows that agree in all three in their order
RowBefore(rows, i, j) ==
    \/ KeyLess(rows[i].dedupe_key, rows[j].dedupe_key)
    \/ /\ rows[i].dedupe_key = rows[j].dedupe_key
       /\ \/ RatLt(rows[j].review_count_sort, rows[i].review_count_sort)
          \/ /\ RatEq(rows[j].review_count_sort, rows[i].review_count_sort)
             /\ \/ RatLt(rows[j].rating, rows[i].rating)
                \/ /\ RatEq(rows[j].rating, rows[i].rating)
                   /\ i < j

RECURSIVE SortFrom(_, _)
\* the rows at the positions I, sorted
SortFrom(rows, I) ==
    IF I = {} THEN << >>
    ELSE <<rows[CHOOSE i \in I : \A j \in I \ {i} : RowBefore(rows, i, j)]>>
            \o SortFrom(rows, I \ {CHOOSE i \in I : \A j \in I \ {i} : RowBefore(rows, i, j)})

\* line 87: out.sort_values(...)
SortValues ==
    /\ pcDedup = "sort"
    /\ g_out' = SortFrom(g_out, 1..Len(g_out))
    /\ pcDedup' = "drop"
    /\ UNCHANGED <<frames, files_read, google_cleaned, dedup_error, notDedupVars>>

\* line 89: keep="first"
FirstOfKey(rows, i) ==
    \A j \in 1..(i - 1) : rows[j].dedupe_key # rows[i].dedupe_key

RECURSIVE KeepFirstFrom(_, _)
KeepFirstFrom(rows, i) ==
    IF i > Len(rows) THEN << >>
    ELSE IF FirstOfKey(rows, i) THEN <<rows[i]>> \o KeepFirstFrom(rows, i + 1)
    ELSE KeepFirstFrom(rows, i + 1)

\* line 89: out.drop_duplicates(subset=["__dedupe_key"], keep="first")
DropDuplicates ==
    /\ pcDedup = "drop"
    /\ g_out' = KeepFirstFrom(g_out, 1)
    /\ pcDedup' = "write"
    /\ UNCHANGED <<frames, files_read, google_cleaned, dedup_error, notDedupVars>>

\* line 92: the four columns of the output
FinalColumns(row) ==
    [name |-> row.name, rating |-> row.rating, review_count |-> row.review_count,
     place_link |-> row.place_link]

\* lines 92-98: the files are written
WriteCleaned ==
    /\ pcDedup = "write"
    /\ google_cleaned' = [i \in 1..Len(g_out) |-> FinalColumns(g_out[i])]
    /\ pcDedup' = "done"
    /\ UNCHANGED <<frames, files_read, g_out, dedup_error, notDedupVars>>

InitDedupe ==
    /\ frames = << >> /\ files_read = 0 /\ g_out = << >>
    /\ google_cleaned = NoFile /\ dedup_error = ""
    /\ pcDedup = "start"
    /\ MergeIdle /\ MatchIdle /\ CleanIdle /\ NormIdle /\ PriceIdle /\ TextIdle
    /\ CoordIdle /\ LLMIdle /\ TransIdle /\ CatIdle

NextDedupe ==
    \/ CheckInputs
    \/ ReadFile
    \/ DropIncomplete
    \/ BuildKeys
    \/ SortValues
    \/ DropDuplicates
    \/ WriteCleaned

\* one run of the deduplication script
SpecDedupe == InitDedupe /\ [][NextDedupe]_vars

(***************************************************************************)
(* redirect_coord_verification.py: the check of the wiki coordinates of    *)
(* redirected names.  A coordinate is a rational number of degrees, NaN is *)
(* NoFloat.                                                                *)
(***************************************************************************)
\* lines of the redirect log, rows of the reference and of the wiki dataset
MaxLogLines == 2

MaxRefRows == 2

MaxWikiRows == 2

\* line 12, in kilometers
DISTANCE_THRESHOLD_KM == Rat(2, 1)

Degrees(n) == Rat(n, 10000)

\* the places the coordinates of the datasets are taken from: Louvre, Orsay,
\* Eiffel Tower, Versailles
Places ==
    << [lat |-> Degrees(488606), lon |-> Degrees(23376)],
       [lat |-> Degrees(488600), lon |-> Degrees(23266)],
       [lat |-> Degrees(488584), lon |-> Degrees(22945)],
       [lat |-> Degrees(488049), lon |-> Degrees(21204)] >>

\* lines 20-28 on two of the places: the great circle distance in meters,
\* rounded
Meters ==
    << <<0, 807, 3162, 17062>>,
       <<807, 0, 2355, 16289>>,
       <<3162, 2355, 0, 14064>>,
       <<17062, 16289, 14064, 0>> >>

PlaceAt(lat, lon) == CHOOSE p \in 1..Len(Places) : Places[p] = [lat |-> lat, lon |-> lon]

\* lines 14-28: NaN for a NaN argument
haversine_distance(lat1, lon1, lat2, lon2) ==
    IF NoFloat \in {lat1, lon1, lat2, lon2} THEN NoFloat
    ELSE Rat(Meters[PlaceAt(lat1, lon1)][PlaceAt(lat2, lon2)], 1000)

\* the positions of line where "->" starts
Arrows(line) == {i \in 1..(Len(line) - 1) : line[i] = "-" /\ line[i + 1] = ">"}

\* lines 38-42: line.split('->')[0].strip()
LeftOfArrow(line) == strip(SubSeq(line, 1, SetMin(Arrows(line)) - 1))

LogLinePool ==
    { <<"L", "o", "u", "v", "r", "e", " ", "-", ">", " ", "L", "o", "u", "v", "r", "e", " ", "M", "u", "s", "e", "u", "m">>, <<" ", "O", "r", "s", "a", "y", "-", ">", "M", "u", "s", "e", "e", " ", "-", ">", " ", "P", "a", "r", "i", "s">>, <<"T", "o", "u", "r">>, <<"L", "a", " ", "T", "o", "u", "r", " ", "-", ">">> }

\* a row of the reference dataset
RefRow(name, lat, lng) == [name |-> name, lat |-> lat, lng |-> lng]

RefRowPool ==
    { RefRow(Louvre, Places[1].lat, Places[1].lon),
      RefRow(Louvre, Places[4].lat, Places[4].lon),
      RefRow(Orsay, Places[3].lat, Places[3].lon),
      RefRow(Orsay, NoFloat, Places[2].lon),
      RefRow(Tour, Places[3].lat, Places[3].lon) }

\* a row of the wiki dataset
WikiRow(input_name, lat, lon) == [input_name |-> input_name, lat |-> lat, lon |-> lon]

WikiRowPool ==
    { WikiRow(Louvre, Places[2].lat, Places[2].lon),
      WikiRow(Louvre, Places[3].lat, Places[3].lon),
      WikiRow(Louvre, NoFloat, Places[1].lon),
      WikiRow(Orsay, Places[2].lat, Places[2].lon),
      WikiRow(Orsay, Places[3].lat, NoFloat),
      WikiRow(Tour, NoFloat, NoFloat),
      WikiRow(LaTour, Places[4].lat, Places[4].lon) }

\* lines 33-46: the redirect log is read, or is not there
LoadRedirectLog ==
    /\ pcCoord = "start"
    /\ \E found \in BOOLEAN, log \in SeqsUpTo(LogLinePool, MaxLogLines) :
          IF found
          THEN /\ redirected_names' =
                     {LeftOfArrow(log[i]) : i \in {j \in 1..Len(log) : Arrows(log[j]) # {}}}
               /\ coord_stdout' = Append(coord_stdout, "Loaded redirected entries")
               /\ pcCoord' = "load"
          ELSE /\ coord_stdout' = Append(coord_stdout, "Error: log not found")
               /\ pcCoord' = "done"
               /\ UNCHANGED redirected_names
    /\ UNCHANGED <<ref_dict, df_wiki, is_correct, verified_csv, notCoordVars>>

RECURSIVE RefDictFrom(_, _, _)
\* lines 64-65: the first row of every name
RefDictFrom(rows, i, d) ==
    IF i > Len(rows) THEN d
    ELSE IF rows[i].name \in DOMAIN d THEN RefDictFrom(rows, i + 1, d)
    ELSE RefDictFrom(rows, i + 1,
                     DictPut(d, rows[i].name, [lat |-> rows[i].lat, lng |-> rows[i].lng]))

\* lines 48-67: the two datasets are read
LoadDatasets ==
    /\ pcCoord = "load"
    /\ \E problem \in {"", "FileNotFoundError", "missing columns"},
          ref \in SeqsUpTo(RefRowPool, MaxRefRows),
          wiki \in SeqsUpTo(WikiRowPool, MaxWikiRows) :
          IF problem = "FileNotFoundError"
          THEN /\ coord_stdout' = Append(coord_stdout, "Error loading CSV files")
               /\ pcCoord' = "done"
               /\ UNCHANGED <<ref_dict, df_wiki>>
          ELSE IF problem = "missing columns"
          THEN /\ coord_stdout' = Append(coord_stdout, "Error: Reference dataset missing required columns")
               /\ pcCoord' = "done"
               /\ df_wiki' = wiki
               /\ UNCHANGED ref_dict
          ELSE /\ ref_dict' = RefDictFrom(ref, 1, EmptyDict)
               /\ df_wiki' = wiki
               /\ coord_stdout' = Append(coord_stdout, "Verifying coordinates")
               /\ pcCoord' = "verify"
    /\ UNCHANGED <<redirected_names, is_correct, verified_csv, notCoordVars>>

\* mutant: a redirected name without reference data passes
verify_row_Unverifiable(row) ==
    IF row.input_name \notin redirected_names THEN TRUE
    ELSE IF row.input_name \notin DOMAIN ref_dict THEN TRUE
    ELSE IF row.lat = NoFloat \/ row.lon = NoFloat THEN FALSE
    ELSE /\ haversine_distance(row.lat, row.lon, ref_dict[row.input_name].lat,
                               ref_dict[row.input_name].lng) # NoFloat
         /\ RatLe(haversine_distance(row.lat, row.lon, ref_dict[row.input_name].lat,
                                     ref_dict[row.input_name].lng),
                  DISTANCE_THRESHOLD_KM)

\* lines 70-106: a comparison with NaN is false
verify_row(row) ==
    IF row.input_name \notin redirected_names THEN TRUE
    ELSE IF row.input_name \notin DOMAIN ref_dict THEN FALSE
    ELSE IF row.lat = NoFloat \/ row.lon = NoFloat THEN FALSE
    ELSE /\ haversine_distance(row.lat, row.lon, ref_dict[row.input_name].lat,
                               ref_dict[row.input_name].lng) # NoFloat
         /\ RatLe(haversine_distance(row.lat, row.lon, ref_dict[row.input_name].lat,
                                     ref_dict[row.input_name].lng),
                  DISTANCE_THRESHOLD_KM)

\* line 109: verify_row is applied to the next row
VerifyRow ==
    /\ pcCoord = "verify"
    /\ Len(is_correct) < Len(df_wiki)
    /\ is_correct' = Append(is_correct, verify_row(df_wiki[Len(is_correct) + 1]))
    /\ UNCHANGED <<redirected_names, ref_dict, df_wiki, verified_csv, coord_stdout,
                   pcCoord, notCoordVars>>

\* lines 109-125: the column is assigned, the file written, the totals printed
SaveVerified ==
    /\ pcCoord = "verify"
    /\ Len(is_correct) = Len(df_wiki)
    /\ verified_csv' = [i \in 1..Len(df_wiki) |->
                           [input_name |-> df_wiki[i].input_name, lat |-> df_wiki[i].lat,
                            lon |-> df_wiki[i].lon, is_correct |-> is_correct[i]]]
    /\ coord_stdout' = Append(coord_stdout, "Processing Complete")
    /\ pcCoord' = "done"
    /\ UNCHANGED <<redirected_names, ref_dict, df_wiki, is_correct, notCoordVars>>

InitCoord ==
    /\ redirected_names = {} /\ ref_dict = << >>
    /\ df_wiki = << >> /\ is_correct = << >>
    /\ verified_csv = NoFile /\ coord_stdout = << >>
    /\ pcCoord = "start"
    /\ MergeIdle /\ MatchIdle /\ CleanIdle /\ NormIdle /\ PriceIdle /\ TextIdle
    /\ DedupIdle /\ LLMIdle /\ TransIdle /\ CatIdle

NextCoord == LoadRedirectLog \/ LoadDatasets \/ VerifyRow \/ SaveVerified

\* one run of the coordinate verification
SpecCoord == InitCoord /\ [][NextCoord]_vars

(***************************************************************************)
(* redirect_llm_verification.py: the rows that failed the verification for *)
(* want of coordinates are put to the language model.                      *)
(***************************************************************************)
\* rows of the verified dataset
MaxLLMRows == 2

\* the rate limit errors in a row that one call meets before the limit lifts
MaxRateLimits == 2

LLMRow(input_name, wiki_name, lat, lon, correct) ==
    [input_name |-> input_name, wiki_name |-> wiki_name, lat |-> lat, lon |-> lon,
     is_correct |-> correct]

LLMRowPool ==
    { LLMRow(Louvre, LouvreMuseum, Places[1].lat, Places[1].lon, TRUE),
      LLMRow(Louvre, LouvreMuseum, NoFloat, NoFloat, TRUE),
      LLMRow(Orsay, Tour, Places[3].lat, Places[3].lon, FALSE),
      LLMRow(Tour, LaTour, NoFloat, NoFloat, FALSE),
      LLMRow(LaTour, Tour, Places[3].lat, NoFloat, FALSE) }

\* what model.generate_content gives: a text, or an exception
Responses ==
    {[kind |-> "text", text |-> x] :
        x \in { <<"T", "R", "U", "E">>, <<" ", "t", "r", "u", "e", ".">>, <<"F", "A", "L", "S", "E">>, <<"N", "o", "t", " ", "t", "r", "u", "e">>, <<"F", "a", "l", "s", "e", ",", " ", "n", "o", "t", " ", "T", "R", "U", "E">>, <<"m", "a", "y", "b", "e">>, << >> }}
    \cup {[kind |-> "ResourceExhausted", text |-> << >>],
          [kind |-> "Exception", text |-> << >>]}

\* line 71: the mask of the rows to check
rows_to_check_AllFalse(row) == row.is_correct = FALSE

rows_to_check(row) == row.is_correct = FALSE /\ (row.lat = NoFloat \/ row.lon = NoFloat)

\* the rows of df[rows_to_check] after position i
RowsAfter(i) == {k \in (i + 1)..Len(df) : rows_to_check(df_read[k])}

\* mutant: a rate limit error gives the verdict False
llm_verify_equivalence_GiveUp(resp) ==
    IF resp.kind = "ResourceExhausted" THEN [retry |-> FALSE, value |-> FALSE]
    ELSE IF resp.kind = "Exception" THEN [retry |-> FALSE, value |-> FALSE]
    ELSE IF Contains(<<"T", "R", "U", "E">>, resp.answer) THEN [retry |-> FALSE, value |-> TRUE]
    ELSE IF Contains(<<"F", "A", "L", "S", "E">>, resp.answer) THEN [retry |-> FALSE, value |-> FALSE]
    ELSE [retry |-> FALSE, value |-> FALSE]

\* lines 49-63: what the function does with the response of the model: it
\* calls itself again, or it returns a value
llm_verify_equivalence(resp) ==
    IF resp.kind = "ResourceExhausted" THEN [retry |-> TRUE, value |-> FALSE]
    ELSE IF resp.kind = "Exception" THEN [retry |-> FALSE, value |-> FALSE]
    ELSE IF Contains(<<"T", "R", "U", "E">>, resp.answer) THEN [retry |-> FALSE, value |-> TRUE]
    ELSE IF Contains(<<"F", "A", "L", "S", "E">>, resp.answer) THEN [retry |-> FALSE, value |-> FALSE]
    ELSE [retry |-> FALSE, value |-> FALSE]

\* line 67
ReadVerified ==
    /\ pcLLM = "start"
    /\ \E rows \in SeqsUpTo(LLMRowPool, MaxLLMRows) :
          /\ df_read' = rows
          /\ df' = rows
    /\ pcLLM' = "loop"
    /\ UNCHANGED <<row_index, requests, retries, response, llm_csv, notLLMVars>>

\* lines 83-93: the loop takes the next row of the mask and calls the function
CallLLM ==
    /\ pcLLM = "loop"
    /\ RowsAfter(row_index) # {}
    /\ row_index' = SetMin(RowsAfter(row_index))
    /\ retries' = 0
    /\ pcLLM' = "call"
    /\ UNCHANGED <<df_read, df, requests, response, llm_csv, notLLMVars>>

\* line 47: response.text.strip().upper()
AnswerOf(resp) == upper(strip(resp.text))

\* lines 46-47: the request; the model answers, or raises
GenerateContent ==
    /\ pcLLM = "call"
    /\ \E r \in Responses :
          /\ r.kind = "ResourceExhausted" => retries < MaxRateLimits
          /\ response' = [kind |-> r.kind, text |-> r.text, answer |-> AnswerOf(r)]
    /\ requests' = Append(requests, row_index)
    /\ pcLLM' = "respond"
    /\ UNCHANGED <<df_read, df, row_index, retries, llm_csv, notLLMVars>>

\* lines 49-63 and 95-106: the retry, or the return and the update of the row
HandleResponse ==
    /\ pcLLM = "respond"
    /\ IF llm_verify_equivalence(response).retry
       THEN /\ retries' = retries + 1
            /\ pcLLM' = "call"
            /\ UNCHANGED df
       ELSE /\ df' = IF llm_verify_equivalence(response).value
                     THEN [df EXCEPT ![row_index].is_correct = TRUE]
                     ELSE df
            /\ pcLLM' = "loop"
            /\ UNCHANGED retries
    /\ UNCHANGED <<df_read, row_index, requests, response, llm_csv, notLLMVars>>

\* lines 108-115
SaveLLM ==
    /\ pcLLM = "loop"
    /\ RowsAfter(row_index) = {}
    /\ llm_csv' = df
    /\ pcLLM' = "done"
    /\ UNCHANGED <<df_read, df, row_index, requests, retries, response, notLLMVars>>

InitLLM ==
    /\ df_read = << >> /\ df = << >> /\ row_index = 0
    /\ requests = << >> /\ retries = 0 /\ response = NoResponse
    /\ llm_csv = << >> /\ pcLLM = "start"
    /\ MergeIdle /\ MatchIdle /\ CleanIdle /\ NormIdle /\ PriceIdle /\ TextIdle
    /\ DedupIdle /\ CoordIdle /\ TransIdle /\ CatIdle

NextLLM == ReadVerified \/ CallLLM \/ GenerateContent \/ HandleResponse \/ SaveLLM

\* one run of the LLM verification
SpecLLM == InitLLM /\ [][NextLLM]_vars

\* the run goes on while it can: the script is one sequential process
SpecLLMFair == SpecLLM /\ WF_vars(NextLLM)

(***************************************************************************)
(* translate_dataset.py: the cleaned records are put to the language model *)
(* batch by batch.                                                         *)
(***************************************************************************)
\* records of the cleaned JSON file
MaxRecords == 2

\* line 16
BATCH_SIZE == 1

\* line 24: the default of the parameter
max_retries == 3

JsonRecord(name, short_description) ==
    [name |-> name, short_description |-> short_description]

JsonRecordPool ==
    { JsonRecord(Louvre, <<"m", "u", "s", "é", "e">>), JsonRecord(Orsay, <<"g", "a", "r", "e">>), JsonRecord(Tour, << >>) }

\* the English of a French value
English(s) ==
    IF s = <<"m", "u", "s", "é", "e">> THEN <<"m", "u", "s", "e", "u", "m">>
    ELSE IF s = <<"g", "a", "r", "e">> THEN <<"s", "t", "a", "t", "i", "o", "n">>
    ELSE s

Translated(rec) == [rec EXCEPT !.short_description = English(rec.short_description)]

\* the value of the function: None, or the parsed JSON
Returned(none, value) == [none |-> none, value |-> value]

\* what one request gives for a batch: an exception, or a text that json.loads
\* parses to the translated records, to no record, or to other records
AttemptOutcomes(batch) ==
    { [kind |-> "ResourceExhausted", value |-> << >>],
      [kind |-> "Exception", value |-> << >>],
      [kind |-> "json", value |-> << >>],
      [kind |-> "json", value |-> [k \in 1..Len(batch) |-> Translated(batch[k])]],
      [kind |-> "json", value |-> <<JsonRecord(LaTour, << >>)>>] }

\* line 73: data[i : i + BATCH_SIZE]
Batch(i) == SubSeq(json_data, i + 1, SetMin({i + BATCH_SIZE, Len(json_data)}))

\* mutant: a failed batch is left out
Collect_Dropped(collected, returned, batch) ==
    IF ~returned.none /\ returned.value # << >> THEN collected \o returned.value
    ELSE collected

\* lines 78-82: the result is kept, or the original batch
Collect(collected, returned, batch) ==
    IF ~returned.none /\ returned.value # << >> THEN collected \o returned.value
    ELSE collected \o batch

\* lines 60-69
LoadCleaned ==
    /\ pcTrans = "start"
    /\ \E found \in BOOLEAN, records \in SeqsUpTo(JsonRecordPool, MaxRecords) :
          IF found
          THEN /\ json_data' = records
               /\ pcTrans' = IF Len(records) > 0 THEN "try" ELSE "save"
          ELSE /\ pcTrans' = "no input"
               /\ UNCHANGED json_data
    /\ UNCHANGED <<batch_start, attempt, batch_results, translated_data, translated_json,
                   notTransVars>>

\* lines 76-84 after the return of translate_batch_with_retry, and the step
\* of the loop of line 72
AfterReturn(returned, calls) ==
    /\ translated_data' = Collect(translated_data, returned, Batch(batch_start))
    /\ batch_results' = Append(batch_results, [calls |-> calls, returned |-> returned])
    /\ batch_start' = batch_start + BATCH_SIZE
    /\ attempt' = 0
    /\ pcTrans' = IF batch_start + BATCH_SIZE < Len(json_data) THEN "try" ELSE "save"

\* lines 40-54: one attempt; it returns the parsed answer, or goes on
Attempt ==
    /\ pcTrans = "try"
    /\ attempt < max_retries
    /\ \E o \in AttemptOutcomes(Batch(batch_start)) :
          IF o.kind = "json"
          THEN AfterReturn(Returned(FALSE, o.value), attempt + 1)
          ELSE /\ attempt' = attempt + 1
               /\ UNCHANGED <<batch_start, batch_results, translated_data, pcTrans>>
    /\ UNCHANGED <<json_data, translated_json, notTransVars>>

\* lines 56-57: the loop is exhausted
MaxRetriesReached ==
    /\ pcTrans = "try"
    /\ attempt = max_retries
    /\ AfterReturn(Returned(TRUE, << >>), attempt)
    /\ UNCHANGED <<json_data, translated_json, notTransVars>>

\* lines 86-89
SaveTranslated ==
    /\ pcTrans = "save"
    /\ translated_json' = translated_data
    /\ pcTrans' = "saved"
    /\ UNCHANGED <<json_data, batch_start, attempt, batch_results, translated_data,
                   notTransVars>>

InitTranslate ==
    /\ json_data = << >> /\ batch_start = 0 /\ attempt = 0
    /\ batch_results = << >> /\ translated_data = << >> /\ translated_json = << >>
    /\ pcTrans = "start"
    /\ MergeIdle /\ MatchIdle /\ CleanIdle /\ NormIdle /\ PriceIdle /\ TextIdle
    /\ DedupIdle /\ CoordIdle /\ LLMIdle /\ CatIdle

NextTranslate == LoadCleaned \/ Attempt \/ MaxRetriesReached \/ SaveTranslated

\* one run of the translation
SpecTranslate == InitTranslate /\ [][NextTranslate]_vars

\* the run goes on while it can: the script is one sequential process
SpecTranslateFair == SpecTranslate /\ WF_vars(NextTranslate)

(***************************************************************************)
(* wikipedia_scraper.py: the category of a page is read off its text.      *)
(***************************************************************************)
\* the rotations of the written order that are taken as iteration orders
MaxRotation == 1

\* lines 29-34, in the order of the literal
DeclaredCategories ==
    << <<"C", "h", "u", "r", "c", "h">>,
       <<"T", "e", "m", "p", "l", "e">>,
       <<"M", "o", "s", "q", "u", "e">>,
       <<"H", "i", "s", "t", "o", "r", "i", "c", " ", "S", "i", "t", "e">>,
       <<"M", "u", "s", "e", "u", "m">>,
       <<"A", "r", "t", " ", "M", "u", "s", "e", "u", "m">>,
       <<"H", "i", "s", "t", "o", "r", "y", " ", "M", "u", "s", "e", "u", "m">>,
       <<"S", "c", "i", "e", "n", "c", "e", " ", "M", "u", "s", "e", "u", "m">>,
       <<"A", "r", "t", " ", "G", "a", "l", "l", "e", "r", "y">>,
       <<"P", "u", "b", "l", "i", "c", " ", "A", "r", "t">>,
       <<"M", "o", "n", "u", "m", "e", "n", "t", " ", "/", " ", "L", "a", "n", "d", "m", "a", "r", "k">>,
       <<"C", "e", "m", "e", "t", "e", "r", "y">>,
       <<"G", "a", "r", "d", "e", "n">>,
       <<"S", "c", "u", "l", "p", "t", "u", "r", "e", " ", "G", "a", "r", "d", "e", "n">>,
       <<"P", "a", "r", "k">>,
       <<"P", "l", "a", "z", "a">>,
       <<"B", "r", "i", "d", "g", "e">> >>

RELATED_SUBCATEGORY_SET == {DeclaredCategories[i] : i \in 1..Len(DeclaredCategories)}

HistoricSite == <<"H", "i", "s", "t", "o", "r", "i", "c", " ", "S", "i", "t", "e">>

Rotated(s, k) == [i \in 1..Len(s) |-> s[((i + k - 1) % Len(s)) + 1]]

Reversed(s) == [i \in 1..Len(s) |-> s[Len(s) + 1 - i]]

\* orders in which a process may iterate over the set: the order follows
\* the hashes of the strings, which differ from process to process
IterationOrders ==
    {Rotated(DeclaredCategories, k) : k \in 0..MaxRotation}
    \cup {Reversed(Rotated(DeclaredCategories, k)) : k \in 0..MaxRotation}

RECURSIVE SortedByLen(_, _)
\* line 66: sorted(..., key=len, reverse=True) keeps the order of the
\* iteration among names of one length
SortedByLen(order, n) ==
    IF n = 0 THEN << >>
    ELSE SelectSeq(order, LAMBDA c : Len(c) = n) \o SortedByLen(order, n - 1)

sorted_categories(order) ==
    SortedByLen(order, SetMax({Len(order[i]) : i \in 1..Len(order)}))

RECURSIVE SplitSlash(_)
\* line 70: cat.split('/')
SplitSlash(s) ==
    IF \A i \in 1..Len(s) : s[i] # "/" THEN <<s>>
    ELSE <<SubSeq(s, 1, SetMin({i \in 1..Len(s) : s[i] = "/"}) - 1)>>
         \o SplitSlash(SubSeq(s, SetMin({i \in 1..Len(s) : s[i] = "/"}) + 1, Len(s)))

\* lines 69-74: the test of one category
CategoryHit(cat, text_lower) ==
    IF Contains(<<"/">>, cat)
    THEN \E k \in 1..Len(SplitSlash(cat)) :
            Contains(lower(strip(SplitSlash(cat)[k])), text_lower)
    ELSE Contains(lower(cat), text_lower)

\* lines 57-75, in a process with the given iteration order of the set
match_category(content, order) ==
    IF ~Truthy(content) THEN HistoricSite
    ELSE IF \A i \in 1..Len(order) : ~CategoryHit(sorted_categories(order)[i], lower(content))
    THEN HistoricSite
    ELSE sorted_categories(order)[
            SetMin({i \in 1..Len(order) :
                       CategoryHit(sorted_categories(order)[i], lower(content))})]

CategoryTexts ==
    { << >>,
      <<"A", " ", "c", "h", "u", "r", "c", "h", " ", "n", "e", "a", "r", " ", "t", "h", "e", " ", "b", "r", "i", "d", "g", "e">>,
      <<"T", "h", "e", " ", "A", "r", "t", " ", "M", "u", "s", "e", "u", "m", " ", "o", "f", " ", "P", "a", "r", "i", "s">>,
      <<"p", "u", "b", "l", "i", "c", " ", "a", "r", "t", " ", "m", "u", "s", "e", "u", "m">>,
      <<"S", "C", "U", "L", "P", "T", "U", "R", "E", " ", "G", "A", "R", "D", "E", "N">>,
      <<"a", " ", "l", "a", "n", "d", "m", "a", "r", "k">>,
      <<"M", "o", "n", "u", "m", "e", "n", "t", "a", "l", " ", "g", "a", "t", "e">>,
      <<"E", "i", "f", "f", "e", "l", " ", "T", "o", "w", "e", "r">>,
      <<"h", "i", "s", "t", "o", "r", "i", "c", " ", "s", "i", "t", "e", " ", "w", "i", "t", "h", " ", "a", " ", "p", "a", "r", "k">>,
      <<"p", "a", "r", "k", "i", "n", "g">>,
      <<"s", "c", "i", "e", "n", "c", "e", " ", "m", "u", "s", "e", "u", "m", ",", " ", "h", "i", "s", "t", "o", "r", "y", " ", "m", "u", "s", "e", "u", "m">>,
      <<" ">>,
      NoneValue }

\* line 166 or 217 in one process
MatchCategory ==
    /\ pcCat = "start"
    /\ \E t \in CategoryTexts :
          /\ text_content' = t
          /\ category' = match_category(t, iteration_order)
    /\ pcCat' = "called"
    /\ UNCHANGED <<iteration_order, other_order, other_category, notCatVars>>

\* the same call in the other process
MatchCategoryAgain ==
    /\ pcCat = "called"
    /\ other_category' = match_category(text_content, other_order)
    /\ pcCat' = "done"
    /\ UNCHANGED <<text_content, iteration_order, category, other_order, notCatVars>>

InitCategory ==
    /\ text_content = << >> /\ category = << >> /\ other_category = << >>
    /\ iteration_order \in IterationOrders
    /\ other_order \in IterationOrders
    /\ pcCat = "start"
    /\ MergeIdle /\ MatchIdle /\ CleanIdle /\ NormIdle /\ PriceIdle /\ TextIdle
    /\ DedupIdle /\ CoordIdle /\ LLMIdle /\ TransIdle

NextCategory == MatchCategory \/ MatchCategoryAgain

\* two processes that classify the same text
SpecCategory == InitCategory /\ [][NextCategory]_vars

(***************************************************************************)
(* Vocabulary of the matcher properties                                    *)
(***************************************************************************)
Called == pcMatch = "done"

Key(a) == normalize_name(a)

AliasIdx == 1..Len(aliases)

CandIdx == 1..Len(g_names)

\* the aliases the fuzzy pass can score: those with a non-empty key
KeyedIdx == {k \in AliasIdx : Key(aliases[k]) # << >>}

\* alias k has an exact hit in the candidate list
ExactHit(k) ==
    /\ Key(aliases[k]) # << >>
    /\ \E i \in CandIdx : g_norm[i] = Key(aliases[k])

NoExactHit == \A k \in AliasIdx : ~ExactHit(k)

\* similarity of alias k and candidate i under the active strategy
Score(k, i) ==
    IF HAS_RAPIDFUZZ THEN token_set_ratio(Key(aliases[k]), g_norm[i])
    ELSE simple_token_similarity(aliases[k], g_names[i])

MaxScore == IF HAS_RAPIDFUZZ THEN Rat(100, 1) ELSE Rat(1, 1)

\* the acceptance threshold the code applies
Threshold == IF HAS_RAPIDFUZZ THEN Rat(min_score, 1) ELSE FallbackThreshold

\* (k, i) is a highest-scoring pair among the pairs of K x CandIdx
Highest(K, k, i) ==
    /\ k \in K /\ i \in CandIdx
    /\ \A k2 \in K, i2 \in CandIdx : RatLe(Score(k2, i2), Score(k, i))

\* alias k attains the best score of the fuzzy pass on candidate i, and no
\* earlier alias attains it
FirstBest(k, i) ==
    /\ Highest(KeyedIdx, k, i)
    /\ \A k2 \in KeyedIdx, i2 \in CandIdx :
          k2 < k => RatLt(Score(k2, i2), Score(k, i))

(***************************************************************************)
(* C1: when some alias has a non-empty normalized key equal to the key of  *)
(* a candidate, the call returns a candidate carrying the key of such an   *)
(* alias, whose score against that alias is the maximum of the active      *)
(* strategy, whatever min_score is.                                        *)
(***************************************************************************)
C1_ExactShortCircuit ==
    (Called /\ \E k \in AliasIdx : ExactHit(k)) =>
        /\ result # None
        /\ \E k \in AliasIdx :
              /\ ExactHit(k)
              /\ g_norm[result] = Key(aliases[k])
              /\ RatEq(Score(k, result), MaxScore)

\* an exact hit is returned although min_score is above every score
C1_Witness ==
    /\ Called /\ HAS_RAPIDFUZZ /\ min_score = 101
    /\ \E k \in AliasIdx : ExactHit(k)
    /\ result # None

(***************************************************************************)
(* C2 as stated: without an exact hit the call returns a candidate exactly *)
(* when the highest similarity over all (alias, candidate) pairs is at     *)
(* least the caller's min_score, in both strategies.                       *)
(***************************************************************************)
C2_AsStated ==
    (Called /\ NoExactHit) =>
        IF \E k \in AliasIdx, i \in CandIdx : RatLe(Rat(min_score, 1), Score(k, i))
        THEN result # None /\ \E k \in AliasIdx : Highest(AliasIdx, k, result)
        ELSE result = None

(***************************************************************************)
(* C2 amended: without an exact hit the call returns a candidate exactly   *)
(* when some pair of an alias with non-empty key and a candidate scores at *)
(* least the acceptance threshold, which is min_score with rapidfuzz and   *)
(* the fixed 0.60 in the fallback; the candidate attains the highest score.*)
(***************************************************************************)
C2_FuzzyThreshold ==
    (Called /\ NoExactHit) =>
        IF \E k \in KeyedIdx, i \in CandIdx : RatLe(Threshold, Score(k, i))
        THEN result # None /\ \E k \in KeyedIdx : Highest(KeyedIdx, k, result)
        ELSE result = None

\* the fallback accepts a pair whose Jaccard score is below min_score
C2_Witness ==
    /\ Called /\ NoExactHit /\ ~HAS_RAPIDFUZZ /\ min_score = 82
    /\ result # None
    /\ \E k \in KeyedIdx : RatEq(Score(k, result), Rat(1, 1))

C4_AsStated ==
    (Called /\ result # None) =>
        \A j \in 1..(result - 1) :
            /\ g_norm[j] # << >> => g_norm[j] # g_norm[result]
            /\ NoExactHit =>
                  \E k \in KeyedIdx : \A k2 \in KeyedIdx :
                      RatLt(Score(k2, j), Score(k, result))

(***************************************************************************)
(* C4 amended: among candidates with the same key the exact table returns  *)
(* the first of the candidate list; in the fuzzy pass the earliest alias   *)
(* that attains the best score decides, and among the candidates tying for *)
(* that alias the first of the candidate list is returned.                 *)
(***************************************************************************)
C4_TieBreak ==
    (Called /\ result # None) =>
        /\ ~NoExactHit =>
              \A j \in 1..(result - 1) : g_norm[j] # g_norm[result]
        /\ NoExactHit =>
              \E k \in KeyedIdx :
                  /\ FirstBest(k, result)
                  /\ \A j \in 1..(result - 1) : RatLt(Score(k, j), Score(k, result))

\* two aliases reach the same best score on different candidates and the
\* candidate of the first alias is returned although it is later in the list
C4_Witness ==
    /\ Called /\ NoExactHit /\ result # None
    /\ \E j \in 1..(result - 1) : \E k \in KeyedIdx :
          /\ FirstBest(1, result)
          /\ k > 1
          /\ RatEq(Score(k, j), Score(1, result))

(***************************************************************************)
(* C5: the empty key is never a key of the exact table, and a call whose   *)
(* aliases all normalize to the empty string returns no match in both      *)
(* strategies, also when a candidate normalizes to the empty string.       *)
(***************************************************************************)
C5_EmptyKeyUnmatchable ==
    /\ << >> \notin DOMAIN g_exact
    /\ (Called /\ KeyedIdx = {}) => result = None

\* an alias and a candidate both normalize to the empty string
C5_Witness ==
    /\ Called /\ aliases # << >> /\ KeyedIdx = {}
    /\ \E i \in CandIdx : g_norm[i] = << >>
    /\ min_score = 0
    /\ result = None

(***************************************************************************)
(* Vocabulary of the merge run properties                                  *)
(***************************************************************************)
RowIdx == 1..Len(df_en)

RECURSIVE UnmatchedFrom(_)
\* the name and url of the first k iterated rows whose result was None
UnmatchedFrom(k) ==
    IF k = 0 THEN << >>
    ELSE IF gis[k] = None
         THEN Append(UnmatchedFrom(k - 1), [name |-> df_en[k].name, url |-> df_en[k].url])
         ELSE UnmatchedFrom(k - 1)

\* the anchor's own fields of the output record of row
AnchorPart(rec, row) == [f \in DOMAIN row |-> rec[f]]

GooglePart(rec) ==
    <<rec.google_rating, rec.google_review_count, rec.place_link_google_map>>

GoogleComplete == \A i \in 1..Len(GoogleRequired) : GoogleRequired[i] \in df_g_columns

EnComplete == \A i \in 1..Len(EnRequired) : EnRequired[i] \in df_en_columns

FrComplete == \A i \in 1..Len(FrUsed) : FrUsed[i] \in df_fr_columns

Loaded == pcMerge \notin {"import", "load"}

\* no candidate index, no match and no output file yet
NothingMatchedOrWritten ==
    /\ g_norm = << >> /\ df_en = << >> /\ gis = << >>
    /\ out_records = NoFile

(***************************************************************************)
(* C6: after any number of iterations of the merge loop, not_found holds,  *)
(* in processing order, one entry for every iterated row whose match       *)
(* result was None and no entry for a matched row; a None result leaves    *)
(* the run in the loop without an error.                                   *)
(***************************************************************************)
C6_NotFoundComplete ==
    /\ Len(gis) = Len(df_en)
    /\ not_found = UnmatchedFrom(Len(df_en))
    /\ df_en # << >> => (pcMerge \in {"loop", "done"} /\ error = NoError)

\* an unmatched row is followed by a matched one and the run finishes
C6_Witness ==
    /\ pcMerge = "done" /\ Len(df_en) = 2
    /\ gis[1] = None /\ gis[2] # None
    /\ not_found = <<[name |-> df_en[1].name, url |-> df_en[1].url]>>

(***************************************************************************)
(* C7: the output has one record per iterated anchor row, in anchor order, *)
(* with the anchor's own fields unchanged; its Google fields are empty or  *)
(* those of the single candidate the row matched, so no record stems from  *)
(* a candidate alone.                                                      *)
(***************************************************************************)
C7_AnchorInvariant ==
    pcMerge = "done" =>
        /\ Len(out_records) = Len(df_en)
        /\ \A i \in RowIdx :
              /\ AnchorPart(out_records[i], df_en[i]) = df_en[i]
              /\ IF gis[i] = None
                 THEN GooglePart(out_records[i]) = <<"", "", "">>
                 ELSE GooglePart(out_records[i]) =
                          <<df_g[gis[i]].rating, df_g[gis[i]].review_count,
                            df_g[gis[i]].place_link>>

\* two different anchors, one matched, and a candidate that nobody matched
C7_Witness ==
    /\ pcMerge = "done" /\ Len(df_en) = 2 /\ df_en[1] # df_en[2]
    /\ gis[2] # None
    /\ \E j \in 1..Len(df_g) : \A i \in RowIdx : gis[i] # j
    /\ \E i \in RowIdx : out_records[i].place_link_google_map # ""

(***************************************************************************)
(* C10 as stated: when the Google, French or English input lacks an        *)
(* expected column, the run does not get past the column checks, writes    *)
(* nothing, and its error names the missing column and its source.         *)
(***************************************************************************)
C10_AsStated ==
    (Loaded /\ ~(GoogleComplete /\ FrComplete /\ EnComplete)) =>
        /\ pcMerge \in {"check_g", "check_en", "fr_maps", "error"}
        /\ NothingMatchedOrWritten
        /\ pcMerge = "error" =>
              \/ error.source = "Google CSV" /\ error.column \notin df_g_columns
              \/ error.source = "Translated CSV" /\ error.column \notin df_en_columns
              \/ error.source = "French CSV" /\ error.column \notin df_fr_columns

(***************************************************************************)
(* C10 amended: when the Google or the English input lacks an expected     *)
(* column, the run does not get past the column checks, matches and writes *)
(* nothing, and ends with a ValueError naming the first missing column and *)
(* its source (Google before English).                                     *)
(***************************************************************************)
C10_MissingColumnFatal ==
    (Loaded /\ ~(GoogleComplete /\ EnComplete)) =>
        /\ pcMerge \in {"check_g", "check_en", "error"}
        /\ NothingMatchedOrWritten
        /\ pcMerge = "error" =>
              /\ error.type = "ValueError"
              /\ IF ~GoogleComplete
                 THEN /\ error.source = "Google CSV"
                      /\ error.column =
                            GoogleRequired[FirstMissing(GoogleRequired, df_g_columns)]
                 ELSE /\ error.source = "Translated CSV"
                      /\ error.column =
                            EnRequired[FirstMissing(EnRequired, df_en_columns)]

\* the run ended on a missing column of the translated CSV
C10_Witness ==
    /\ pcMerge = "error" /\ GoogleComplete
    /\ error.source = "Translated CSV" /\ error.column = "address"
    /\ "address" \notin df_en_columns
    /\ NothingMatchedOrWritten

(***************************************************************************)
(* Vocabulary of the cleaning run properties                               *)
(***************************************************************************)
RawIdx == 1..Len(raw_data)

\* the cleaned name or the cleaned address of the raw row is null
MissingRequired(row) ==
    clean_text(row.name) = NoneValue \/ clean_text(row.address) = NoneValue

\* no price can be extracted from the raw row
UnparseablePrice(row) == clean_price(row.ticket_price) = NoFloat

\* the position in cleaned_data of the kept raw row k
Rank(k) == Cardinality({j \in 1..k : kept[j]})

(***************************************************************************)
(* C8: after any prefix of the input, removed_count plus the number of     *)
(* kept records is the number of rows processed; a kept record has a       *)
(* non-null, non-empty name and address; a row whose cleaned name or       *)
(* cleaned address is null is dropped and counted, and every other row is  *)
(* kept, in input order.                                                   *)
(***************************************************************************)
C8_RequiredFieldFilter ==
    /\ Len(kept) = Len(raw_data)
    /\ removed_count + Len(cleaned_data) = Len(raw_data)
    /\ removed_count = Cardinality({k \in RawIdx : MissingRequired(raw_data[k])})
    /\ \A j \in 1..Len(cleaned_data) :
          /\ cleaned_data[j].name \notin {NoneValue, << >>}
          /\ cleaned_data[j].address \notin {NoneValue, << >>}
    /\ \A k \in RawIdx :
          IF MissingRequired(raw_data[k])
          THEN ~kept[k]
          ELSE /\ kept[k]
               /\ cleaned_data[Rank(k)].url = raw_data[k].url
               /\ cleaned_data[Rank(k)].name = clean_text(raw_data[k].name)

\* a row with a name and no address is dropped between two kept rows
C8_Witness ==
    /\ kept = <<TRUE, FALSE, TRUE>>
    /\ clean_text(raw_data[2].name) # NoneValue
    /\ clean_text(raw_data[2].address) = NoneValue
    /\ removed_count = 1 /\ Len(cleaned_data) = 2

\* the runs in which a row has been processed go on without an error
NoAbort ==
    /\ raw_data # << >> => pcClean \in {"loop", "done"}
    /\ (raw_data # << >> /\ pcClean = "done") =>
          \A i \in 1..Len(stdout) : stdout[i].msg # "Error: input not found"
    /\ df_en # << >> => (pcMerge \in {"loop", "done"} /\ error = NoError)

RowAliases(i) == get_aliases_for_en_row(df_en[i])

\* some alias of row i with a non-empty key reaches min_score (the default
\* 82, on the scale 0-100) with token_set_ratio on some candidate
ReachesMinScore(i) ==
    \E k \in 1..Len(RowAliases(i)), c \in CandIdx :
        /\ Key(RowAliases(i)[k]) # << >>
        /\ RatLe(Rat(DefaultMinScore, 1), token_set_ratio(Key(RowAliases(i)[k]), g_norm[c]))

\* some alias of row i reaches 0.60 (on the scale 0-1) with the Jaccard
\* similarity on some candidate
ReachesFallbackThreshold(i) ==
    \E k \in 1..Len(RowAliases(i)), c \in CandIdx :
        RatLe(FallbackThreshold, simple_token_similarity(RowAliases(i)[k], g_names[c]))

LastPrinted == merge_stdout[Len(merge_stdout)]

\* the rows iterated so far were all decided by the pass the import selected,
\* each at the threshold of that pass, and a finished run printed the pass
StrategyOfRows ==
    /\ Len(passes) = Len(df_en)
    /\ ~\E i, j \in RowIdx : passes[i] = "rapidfuzz" /\ passes[j] = "jaccard"
    /\ \A i \in RowIdx :
          /\ passes[i] = "rapidfuzz" =>
                (HAS_RAPIDFUZZ /\ (gis[i] # None <=> ReachesMinScore(i)))
          /\ passes[i] = "jaccard" =>
                (~HAS_RAPIDFUZZ /\ (gis[i] # None <=> ReachesFallbackThreshold(i)))
    /\ pcMerge = "done" =>
          /\ (\E i \in RowIdx : passes[i] = "jaccard") =>
                LastPrinted.msg = "RapidFuzz enabled: False"
          /\ (\E i \in RowIdx : passes[i] = "rapidfuzz") =>
                LastPrinted.msg = "RapidFuzz enabled: True"

\* after the import no step selects the strategy again
StrategyFixed == pcMerge # "import" => UNCHANGED HAS_RAPIDFUZZ

MatchOf(row) == find_best_google_match(get_aliases_for_en_row(row), DefaultMinScore)

\* a step taken while the run is in the merge loop
LoopStep == pcMerge = "loop" /\ pcMerge' \in {"loop", "done"}

\* the result recorded for every iterated row is the one a call for its
\* anchor returns now, after the other rows were processed
SameIfMatchedAgain == \A i \in RowIdx : gis[i] = MatchOf(df_en[i])

\* a step of the merge loop leaves the index and the earlier results alone
IndexAndResultsStable ==
    LoopStep =>
        /\ UNCHANGED <<df_g, g_names, g_norm, g_exact>>
        /\ \A i \in RowIdx : gis'[i] = gis[i]
        /\ \A i, j \in 1..Len(df_en') : df_en'[i] = df_en'[j] => gis'[i] = gis'[j]
        /\ {k \in 1..Len(df_en') : gis'[k] = None} =
              {k \in 1..Len(df_en') :
                  [name |-> df_en'[k].name, url |-> df_en'[k].url] \in SeqToSet(not_found')}

C13_Idempotent == pcNorm = "again" => key_again = key_a

\* the key of a name with an accent, "&" and a stopword was normalized again
C13_Witness ==
    /\ pcNorm = "again"
    /\ name_a = <<"É", "&", "d">>
    /\ key_a = <<"e">> /\ key_again = <<"e">>

(***************************************************************************)
(* Vocabulary of the equivalence property                                  *)
(***************************************************************************)
Paired == pcNorm \in {"pair", "scored"}

\* the key has single spaces between tokens over [a-z0-9], none a stopword
WellFormedKey(key) ==
    /\ key = join(split(key))
    /\ \A i \in 1..Len(key) : key[i] = " " \/ IsAlnum(key[i])
    /\ \A j \in 1..Len(split(key)) : split(key)[j] \notin BILINGUAL_STOPWORDS

\* the in-particular cases: the Louvre in both languages, and two names
\* with the same tokens in another order
KnownKeys ==
    /\ (name_a = MuseeDuLouvre /\ name_b = LouvreMuseum) =>
          (key_a = key_b /\ key_a = <<"l", "o", "u", "v", "r", "e">>)
    /\ name_a = Orsay2 => key_a = <<"o", "r", "s", "a", "y", " ", "2">>
    /\ name_b = TwoOrsay => key_b = <<"2", " ", "o", "r", "s", "a", "y">>

(***************************************************************************)
(* C14 as stated: a name and a name that differs from it in the case or    *)
(* the diacritic of a letter, in a punctuation character (wherever it      *)
(* stands) or in a stopword token have the same key; the key holds the     *)
(* non-stopword tokens in order; "Musée du Louvre" and "Louvre Museum"     *)
(* have the same key.                                                      *)
(***************************************************************************)
C14_AsStated ==
    Paired =>
        /\ name_b \in Variants(name_a) => key_b = key_a
        /\ WellFormedKey(key_a) /\ WellFormedKey(key_b)
        /\ KnownKeys

(***************************************************************************)
(* C14 amended: a name and a name that differs from it in the case or the  *)
(* diacritic of a letter, in a punctuation character that stands between   *)
(* tokens (beside a blank, another punctuation character or an end of the  *)
(* name, or in place of a blank) or in a stopword token have the same key; *)
(* the key holds the non-stopword tokens in order; "Musée du Louvre" and   *)
(* "Louvre Museum" have the same key.                                      *)
(***************************************************************************)
C14_CrossLingual ==
    Paired =>
        /\ name_b \in CaseVariants(name_a) \cup AccentVariants(name_a)
                         \cup SeparatorVariants(name_a) \cup StopwordVariants(name_a)
              => key_b = key_a
        /\ WellFormedKey(key_a) /\ WellFormedKey(key_b)
        /\ KnownKeys

\* the French and the English name of the Louvre were normalized
C14_Witness ==
    /\ pcNorm = "pair"
    /\ name_a = MuseeDuLouvre /\ name_b = LouvreMuseum
    /\ key_a = key_b /\ key_a # << >>

(***************************************************************************)
(* Vocabulary of the fallback scorer property                              *)
(***************************************************************************)
\* the sets of normalized tokens of the two names
TokensA == SeqToSet(split(key_a))

TokensB == SeqToSet(split(key_b))

(***************************************************************************)
(* C15: simple_token_similarity(a, b) is a value between 0 and 1, the same *)
(* for (b, a); it is 0 when a or b has no normalized token, and otherwise  *)
(* the number of common tokens divided by the number of tokens of either;  *)
(* it is 1 exactly when both token sets are equal and not empty.           *)
(***************************************************************************)
C15_Jaccard ==
    pcNorm = "scored" =>
        /\ similarity[1].d > 0
        /\ 0 <= similarity[1].n /\ similarity[1].n <= similarity[1].d
        /\ RatEq(similarity[1], similarity[2])
        /\ (TokensA = {} \/ TokensB = {}) => similarity[1].n = 0
        /\ (TokensA # {} /\ TokensB # {}) =>
              similarity[1].n * Cardinality(TokensA \cup TokensB)
                  = Cardinality(TokensA \cap TokensB) * similarity[1].d
        /\ RatEq(similarity[1], Rat(1, 1)) <=> (TokensA = TokensB /\ TokensA # {})

\* two names with one common token of three
C15_Witness ==
    /\ pcNorm = "scored"
    /\ Cardinality(TokensA) = 2 /\ Cardinality(TokensB) = 2
    /\ similarity[1] = Rat(1, 3)

(***************************************************************************)
(* Vocabulary of the price properties                                      *)
(***************************************************************************)
\* the price string holds the free-admission marker, in any letter case
HasMarker(s) == s # NoneValue /\ Contains(Gratuit, lower(s))

\* the number written with the digits int before and frac after the
\* decimal separator
ValueOf(int, frac) ==
    Rat(IntOf(int) * Pow10(Len(frac)) + IntOf(frac), Pow10(Len(frac)))

(***************************************************************************)
(* C16 as stated: for a price string that holds "gratuit" in any letter    *)
(* case, alone or with text, whitespace or digits around it, clean_price   *)
(* returns 0.0.                                                            *)
(***************************************************************************)
C16_AsStated ==
    (pcPrice = "done" /\ HasMarker(price_str)) => extracted = Rat(0, 1)

(***************************************************************************)
(* C17: for a price string without the marker whose first run of digits is *)
(* int, followed or not by a comma or dot and the digits frac, clean_price *)
(* returns the number int.frac, whatever text stands before the run and    *)
(* after the token; "16,50 €" gives 16.5.                                  *)
(***************************************************************************)
C17_FirstNumber ==
    (pcPrice = "done" /\ ~HasMarker(price_str) /\ price_parts.int # << >>) =>
        /\ extracted.d > 0
        /\ RatEq(extracted, ValueOf(price_parts.int, price_parts.frac))
        /\ price_str = <<"1", "6", ",", "5", "0", " ", "€">> => extracted = Rat(165, 10)

\* a decimal number with a comma between a label and the currency sign
C17_Witness ==
    /\ pcPrice = "done"
    /\ price_str = <<"T", "a", "r", "i", "f", " ", ":", " ", "1", "6", ",", "5", "0", " ", "€">>
    /\ extracted = Rat(165, 10)

(***************************************************************************)
(* Vocabulary of the indeterminate price property                          *)
(***************************************************************************)
HasNumber(s) == s # NoneValue /\ \E i \in 1..Len(s) : s[i] \in Digits

\* the raw price has neither a numeric token nor the free-admission marker
Indeterminate(s) == ~HasNumber(s) /\ ~HasMarker(s)

\* the raw rows that pass the filter and have an indeterminate price
KeptIndeterminate ==
    {k \in RawIdx : Indeterminate(raw_data[k].ticket_price) /\ ~MissingRequired(raw_data[k])}

\* a line of the report that names the record of the raw row
Describes(line, row) == line.msg = row.url

Trimmed(t, c) ==
    \E i \in 1..(Len(t) + 1), j \in 0..Len(t) :
        /\ c = SubSeq(t, i, j)
        /\ \A k \in 1..(i - 1) : t[k] \in Whitespace
        /\ \A k \in (j + 1)..Len(t) : t[k] \in Whitespace
        /\ c # << >> => c[1] \notin Whitespace /\ c[Len(c)] \notin Whitespace

Pieces(t) == {SubSeq(t, i, j) : i \in 1..(Len(t) + 1), j \in 0..Len(t)}

\* the text is null or empty, or a placeholder once trimmed and lower-cased
Absent(t) ==
    \/ t = NoneValue
    \/ t = << >>
    \/ \E c \in Pieces(t) : Trimmed(t, c) /\ lower(c) \in invalid_strings

(***************************************************************************)
(* C19: clean_text returns null exactly when the text is null or empty or  *)
(* its trimmed, lower-cased form is one of the placeholders; otherwise it  *)
(* returns the text without leading and trailing whitespace; applied to    *)
(* its own result it returns that result.                                  *)
(***************************************************************************)
C19_CleanText ==
    /\ pcText \in {"cleaned", "again"} =>
          /\ cleaned = NoneValue <=> Absent(text)
          /\ cleaned # NoneValue => Trimmed(text, cleaned)
    /\ pcText = "again" => cleaned_again = cleaned

\* a padded placeholder in capitals was cleaned twice
C19_Witness ==
    /\ pcText = "again"
    /\ text = <<"\t", " ", "N", "O", "T", " ", "F", "O", "U", "N", "D", " ">>
    /\ cleaned = NoneValue /\ cleaned_again = NoneValue

(***************************************************************************)
(* Vocabulary of the list field property                                   *)
(***************************************************************************)
ListFields == {"payment_methods", "visiting_services"}

\* an entry of a list that is neither null nor the empty string
NonEmptyEntry(x) == x # NoneValue /\ x # << >>

HasPipe(s) == \E i \in 1..Len(s) : s[i] = "|"

NoEmptyItem(v) == \A i \in 1..Len(v.items) : NonEmptyEntry(v.items[i])

(***************************************************************************)
(* C20 as stated: in a kept record, a list value of payment_methods or     *)
(* visiting_services is cleaned to its non-empty entries in order, and a   *)
(* string value is split on the pipe character and filtered the same way:  *)
(* the cleaned field is a list whose items are non-empty and have no pipe. *)
(***************************************************************************)
C20_AsStated ==
    \A k \in RawIdx, f \in ListFields :
        kept[k] =>
           LET raw == raw_data[k][f]
               out == cleaned_data[Rank(k)][f]
           IN  /\ raw.kind = "list" =>
                     out = ListValue(SelectSeq(raw.items, NonEmptyEntry))
               /\ raw.kind = "str" =>
                     /\ out.kind = "list"
                     /\ NoEmptyItem(out)
                     /\ \A i \in 1..Len(out.items) : ~HasPipe(out.items[i])

(***************************************************************************)
(* C20 amended: in a kept record, a list value of payment_methods or       *)
(* visiting_services is cleaned to its non-empty entries in order, so a    *)
(* cleaned list has no empty item; a value that is not a list, a           *)
(* pipe-delimited string or null, is left as it is and is not split. The   *)
(* JSON file holds the cleaned value.                                      *)
(***************************************************************************)
C20_ListFields ==
    \A k \in RawIdx, f \in ListFields :
        kept[k] =>
           LET raw == raw_data[k][f]
               out == cleaned_data[Rank(k)][f]
           IN  /\ raw.kind = "list" =>
                     out = ListValue(SelectSeq(raw.items, NonEmptyEntry))
               /\ raw.kind # "list" => out = raw
               /\ out.kind = "list" => NoEmptyItem(out)
               /\ pcClean = "done" => output_json[Rank(k)][f] = out

\* a list with an empty and a null entry and a delimited string were cleaned
C20_Witness ==
    /\ pcClean = "done" /\ Len(raw_data) = 2 /\ Len(output_json) = 2
    /\ raw_data[1].payment_methods = ListValue(<<<<"C", "B">>, << >>, NoneValue, <<"C", "a", "s", "h">>>>)
    /\ output_json[1].payment_methods = ListValue(<<<<"C", "B">>, <<"C", "a", "s", "h">>>>)
    /\ raw_data[2].payment_methods = StrValue(<<"C", "B", "|", "|", "C", "a", "s", "h">>)
    /\ output_json[2].payment_methods = StrValue(<<"C", "B", "|", "|", "C", "a", "s", "h">>)

(***************************************************************************)
(* Vocabulary of the list field merge property                             *)
(***************************************************************************)
\* the category the spec gives for a payment method
Category(item) == IF item = "Carte Bancaire" THEN "Credit Card" ELSE item

RECURSIVE FirstSeen(_, _)
\* the categories of the first k items, each once, in first-seen order
FirstSeen(items, k) ==
    IF k = 0 THEN << >>
    ELSE IF Category(items[k]) \in SeqToSet(FirstSeen(items, k - 1))
         THEN FirstSeen(items, k - 1)
         ELSE Append(FirstSeen(items, k - 1), Category(items[k]))

RECURSIVE MethodsOfEntity(_, _)
\* the items of the first k rows of df_en that have the url, in order
MethodsOfEntity(url, k) ==
    IF k = 0 THEN << >>
    ELSE IF df_en[k].url = url
         THEN MethodsOfEntity(url, k - 1) \o df_en[k].payment_methods
         ELSE MethodsOfEntity(url, k - 1)

MergedMethods(url) ==
    FirstSeen(MethodsOfEntity(url, Len(df_en)), Len(MethodsOfEntity(url, Len(df_en))))

Normalized(s) == join(split(lower(s)))

\* the key of a row by the priority place_id, place_link, name and address
PriorityKey(row) ==
    IF Normalized(row.place_id) # << >>
    THEN <<"p", "i", "d", ":">> \o Normalized(row.place_id)
    ELSE IF Normalized(row.place_link) # << >>
         THEN <<"l", "i", "n", "k", ":">> \o Normalized(row.place_link)
         ELSE <<"n", "a", ":">> \o Normalized(row.name) \o <<"|">> \o Normalized(row.full_address)

\* the rows read that have a name, a link and a numeric rating
ValidInput ==
    {k \in 1..Len(frames) :
        frames[k].name # << >> /\ frames[k].place_link # << >> /\ frames[k].rating # NoFloat}

\* the columns of a row that were read from the file
InputColumns(row) ==
    [name |-> row.name, rating |-> row.rating, review_count |-> row.review_count,
     place_link |-> row.place_link, place_id |-> row.place_id,
     full_address |-> row.full_address]

Deduplicated == pcDedup \in {"write", "done"}

(***************************************************************************)
(* C22: after the deduplication no two rows of the output share a dedupe   *)
(* key; every key of a valid input row (name, link, numeric rating) is the *)
(* key of exactly one output row; every output row is a valid input row;   *)
(* the key of a row is the place_id if there is one, else the place_link,  *)
(* else name and address; the files hold one record per output row.        *)
(***************************************************************************)
C22_OneRowPerKey ==
    Deduplicated =>
        /\ \A i, j \in 1..Len(g_out) :
              g_out[i].dedupe_key = g_out[j].dedupe_key => i = j
        /\ \A k \in ValidInput :
              Cardinality({i \in 1..Len(g_out) :
                              g_out[i].dedupe_key = PriorityKey(frames[k])}) = 1
        /\ \A i \in 1..Len(g_out) :
              /\ g_out[i].dedupe_key = PriorityKey(g_out[i])
              /\ \E k \in ValidInput : InputColumns(frames[k]) = InputColumns(g_out[i])
        /\ pcDedup = "done" =>
              /\ Len(google_cleaned) = Len(g_out)
              /\ \A i \in 1..Len(g_out) :
                    /\ google_cleaned[i].name = g_out[i].name
                    /\ google_cleaned[i].place_link = g_out[i].place_link

\* three valid rows, two of them with one place id and different links,
\* became two records
C22_Witness ==
    /\ pcDedup = "done"
    /\ Cardinality(ValidInput) = 3 /\ Len(google_cleaned) = 2
    /\ \E j, k \in ValidInput :
          /\ j # k
          /\ frames[j].place_link # frames[k].place_link
          /\ PriorityKey(frames[j]) = <<"p", "i", "d", ":", "p", "1">> /\ PriorityKey(frames[k]) = <<"p", "i", "d", ":", "p", "1">>
    /\ \E k \in ValidInput : PriorityKey(frames[k]) = <<"l", "i", "n", "k", ":", "g", " ", "1">>

\* present review counts by value, a missing one below every present one
CountBelow(a, b) ==
    \/ a = NoFloat /\ b # NoFloat
    \/ a # NoFloat /\ b # NoFloat /\ RatLt(a, b)

\* row r is better than row o: more reviews, or as many and a higher rating
Dominates(r, o) ==
    \/ CountBelow(o.review_count, r.review_count)
    \/ /\ ~CountBelow(r.review_count, o.review_count)
       /\ RatLt(o.rating, r.rating)

(***************************************************************************)
(* C23: the row kept for a dedupe key has the highest review_count of the  *)
(* valid input rows with that key, a missing review_count being below      *)
(* every present one, and among those with that review_count the highest   *)
(* rating: no valid input row with the same key dominates a kept row.      *)
(***************************************************************************)
C23_BestRowKept ==
    Deduplicated =>
        \A i \in 1..Len(g_out), k \in ValidInput :
            PriorityKey(frames[k]) = g_out[i].dedupe_key =>
                /\ ~CountBelow(g_out[i].review_count, frames[k].review_count)
                /\ ~Dominates(frames[k], g_out[i])

\* one key with three rows: without a count and the best rating, with the
\* count 2 (from 2.5) and with the count 2 and a lower rating; the second
\* is kept
C23_Witness ==
    /\ pcDedup = "done" /\ Len(frames) = 3 /\ Len(google_cleaned) = 1
    /\ frames[1].review_count = NoFloat /\ frames[1].rating = Rat(49, 10)
    /\ frames[2].review_count = Rat(2, 1) /\ frames[2].rating = Rat(45, 10)
    /\ frames[3].review_count = Rat(2, 1) /\ frames[3].rating = Rat(48, 10)
    /\ google_cleaned[1].rating = Rat(48, 10)

KeysBuilt == pcDedup \in {"sort", "drop", "write", "done"}

HasPrefix(s, p) == Len(s) >= Len(p) /\ SubSeq(s, 1, Len(p)) = p

(***************************************************************************)
(* C29: every row that reaches the key building has a non-empty normalized *)
(* place_link; so every dedupe key starts with "pid:" or "link:" and none  *)
(* with "na:"; two rows without a place_id have the same key, and are      *)
(* merged into one row, exactly when their place_links are equal after     *)
(* trimming, lower-casing and whitespace collapsing.                       *)
(***************************************************************************)
C29_LinkAlwaysPresent ==
    /\ pcDedup \in {"key", "sort", "drop", "write", "done"} =>
          \A i \in 1..Len(g_out) : Normalized(g_out[i].place_link) # << >>
    /\ KeysBuilt =>
          /\ \A i \in 1..Len(g_out) :
                /\ HasPrefix(g_out[i].dedupe_key, <<"p", "i", "d", ":">>)
                      \/ HasPrefix(g_out[i].dedupe_key, <<"l", "i", "n", "k", ":">>)
                /\ ~HasPrefix(g_out[i].dedupe_key, <<"n", "a", ":">>)
          /\ \A i, j \in 1..Len(g_out) :
                Normalized(g_out[i].place_id) = << >> /\ Normalized(g_out[j].place_id) = << >>
                   => (g_out[i].dedupe_key = g_out[j].dedupe_key
                          <=> Normalized(g_out[i].place_link) = Normalized(g_out[j].place_link))
    /\ Deduplicated =>
          \A i, j \in 1..Len(g_out) :
              /\ i # j
              /\ Normalized(g_out[i].place_id) = << >>
              /\ Normalized(g_out[j].place_id) = << >>
              => Normalized(g_out[i].place_link) # Normalized(g_out[j].place_link)

\* two rows without a place id whose links differ in case and spacing only
\* got one key
C29_Witness ==
    /\ pcDedup = "sort" /\ Len(g_out) = 2
    /\ g_out[1].place_id = << >> /\ g_out[2].place_id = << >>
    /\ g_out[1].place_link = <<"G", " ", "1">> /\ g_out[2].place_link = <<"g", " ", " ", "1">>
    /\ g_out[1].dedupe_key = <<"l", "i", "n", "k", ":", "g", " ", "1">> /\ g_out[2].dedupe_key = <<"l", "i", "n", "k", ":", "g", " ", "1">>

(***************************************************************************)
(* Vocabulary of the coordinate verification property                      *)
(***************************************************************************)
\* the name is in the redirect log
InRedirectLog(name) == name \in redirected_names

\* the reference set has an entry for the name
HasReference(name) == name \in DOMAIN ref_dict

\* the distance of the wiki coordinates of the row to the reference entry
\* is computed and is at most 2.0 km
WithinThreshold(row) ==
    /\ ref_dict[row.input_name].lat # NoFloat /\ ref_dict[row.input_name].lng # NoFloat
    /\ Meters[PlaceAt(row.lat, row.lon)]
             [PlaceAt(ref_dict[row.input_name].lat, ref_dict[row.input_name].lng)] <= 2000

\* the verified file has been written
Saved ==
    /\ pcCoord = "done"
    /\ coord_stdout[Len(coord_stdout)] = "Processing Complete"

(***************************************************************************)
(* C24: a row whose input_name is not in the redirect log is marked        *)
(* correct, even without coordinates; a row whose input_name is in the log *)
(* is marked correct exactly when the reference set has an entry for the   *)
(* name, both wiki coordinates are present and the distance is at most 2.0 *)
(* km; every row of the written file is marked True or False.              *)
(***************************************************************************)
C24_VerifyDecision ==
    /\ \A i \in 1..Len(is_correct) :
          /\ is_correct[i] \in BOOLEAN
          /\ ~InRedirectLog(df_wiki[i].input_name) => is_correct[i]
          /\ InRedirectLog(df_wiki[i].input_name) =>
                (is_correct[i] <=>
                    /\ HasReference(df_wiki[i].input_name)
                    /\ df_wiki[i].lat # NoFloat /\ df_wiki[i].lon # NoFloat
                    /\ WithinThreshold(df_wiki[i]))
    /\ Saved =>
          /\ Len(verified_csv) = Len(df_wiki)
          /\ \A i \in 1..Len(df_wiki) :
                /\ verified_csv[i].input_name = df_wiki[i].input_name
                /\ verified_csv[i].is_correct = is_correct[i]

\* a redirected row within the threshold is True, a row that is not in the
\* log and has no coordinates is True
C24_Witness ==
    /\ pcCoord = "done" /\ Len(df_wiki) = 2
    /\ redirected_names = {Louvre, Orsay}
    /\ df_wiki[1] = WikiRow(Louvre, Places[2].lat, Places[2].lon)
    /\ HasReference(Louvre) /\ ref_dict[Louvre].lat = Places[1].lat
    /\ df_wiki[2] = WikiRow(Tour, NoFloat, NoFloat)
    /\ is_correct = <<TRUE, TRUE>>

(***************************************************************************)
(* Vocabulary of the LLM verification properties                           *)
(***************************************************************************)
MissingCoordinate(row) == row.lat = NoFloat \/ row.lon = NoFloat

\* the two rows agree on every column but is_correct
SameButVerdict(a, b) == [a EXCEPT !.is_correct = TRUE] = [b EXCEPT !.is_correct = TRUE]

\* the answer of the model has neither of the two words
Ambiguous(resp) ==
    /\ resp.kind = "text"
    /\ ~Contains(<<"T", "R", "U", "E">>, upper(strip(resp.text)))
    /\ ~Contains(<<"F", "A", "L", "S", "E">>, upper(strip(resp.text)))

\* the request failed, and not for the rate limit
OtherError(resp) == resp.kind = "Exception"

RateLimited(resp) == resp.kind = "ResourceExhausted"

\* the response is taken in by this step
Handled == pcLLM = "respond" /\ pcLLM' # "respond"

ScopedAndMonotone ==
    /\ \A k \in 1..Len(requests) :
          /\ df_read[requests[k]].is_correct = FALSE
          /\ MissingCoordinate(df_read[requests[k]])
    /\ Len(df) = Len(df_read)
    /\ \A i \in 1..Len(df) :
          /\ SameButVerdict(df[i], df_read[i])
          /\ df_read[i].is_correct => df[i].is_correct
          /\ df[i] # df_read[i] => \E k \in 1..Len(requests) : requests[k] = i
          /\ ~MissingCoordinate(df_read[i]) => df[i] = df_read[i]
    /\ pcLLM = "done" => llm_csv = df

LeftFalse ==
    Handled /\ (Ambiguous(response) \/ OtherError(response)) =>
        /\ df' = df
        /\ df'[row_index].is_correct = FALSE
        /\ pcLLM' = "loop"

(***************************************************************************)
(* C25: the model is asked only about rows with is_correct False and a     *)
(* missing latitude or longitude; a row changes only in is_correct and     *)
(* only from False to True, every other row and column stays as read; an   *)
(* ambiguous answer or an error other than the rate limit leaves the row   *)
(* False.                                                                  *)
(***************************************************************************)
C25_ScopedMonotone == []ScopedAndMonotone /\ [][LeftFalse]_vars

\* a run that recovered one row, and left a row alone that failed the
\* distance check with its coordinates present
C25_Witness ==
    /\ pcLLM = "done" /\ Len(df) = 2
    /\ df_read[1] = LLMRow(Orsay, Tour, Places[3].lat, Places[3].lon, FALSE)
    /\ df[1] = df_read[1]
    /\ df_read[2] = LLMRow(Tour, LaTour, NoFloat, NoFloat, FALSE)
    /\ df[2].is_correct
    /\ requests = <<2>>

Retried ==
    /\ pcLLM' = "call"
    /\ row_index' = row_index /\ df' = df
    /\ retries' = retries + 1

GaveNothing(k) == batch_results[k].returned.none \/ batch_results[k].returned.value = << >>

\* the records of batch k as they were read
OriginalBatch(k) == Batch((k - 1) * BATCH_SIZE)

InOutput(rec) == \E j \in 1..Len(translated_data) : translated_data[j] = rec

BoundedAndLossless ==
    /\ attempt <= max_retries
    /\ \A k \in 1..Len(batch_results) :
          /\ batch_results[k].calls <= max_retries
          /\ batch_results[k].returned.none => batch_results[k].calls = max_retries
          /\ GaveNothing(k) =>
                \A j \in 1..Len(OriginalBatch(k)) : InOutput(OriginalBatch(k)[j])
    /\ (\A k \in 1..Len(batch_results) : GaveNothing(k)) =>
          translated_data = SubSeq(json_data, 1, SetMin({Len(batch_results) * BATCH_SIZE,
                                                        Len(json_data)}))
    /\ pcTrans = "saved" =>
          /\ translated_json = translated_data
          /\ Len(batch_results) * BATCH_SIZE >= Len(json_data)

TranslationEnded == pcTrans \in {"saved", "no input"}

MatchesText(cat, content) ==
    \E k \in 1..Len(SplitSlash(cat)) :
       Contains(lower(strip(SplitSlash(cat)[k])), lower(content))

MatchingCategories(content) == {c \in RELATED_SUBCATEGORY_SET : MatchesText(c, content)}

LongestMatch(cat, content) ==
    IF ~Truthy(content) \/ MatchingCategories(content) = {} THEN cat = HistoricSite
    ELSE /\ cat \in MatchingCategories(content)
         /\ \A c \in MatchingCategories(content) : Len(c) <= Len(cat)

(***************************************************************************)
(* C28: match_category returns a category of the fixed set that matches    *)
(* the text and is at least as long as every other matching category,      *)
(* "Historic Site" when the text is empty or nothing matches, and the same *)
(* category for the same text in every run.                                *)
(***************************************************************************)
C28_AsStated ==
    /\ pcCat # "start" => LongestMatch(category, text_content)
    /\ pcCat = "done" =>
          /\ LongestMatch(other_category, text_content)
          /\ other_category = category

\* the part of C28 that the code keeps: a longest matching category in
\* every run
C28_LongestMatch ==
    /\ pcCat # "start" => LongestMatch(category, text_content)
    /\ pcCat = "done" => LongestMatch(other_category, text_content)

\* two runs that differ on a text with two matching names of one length
C28_Diverged ==
    /\ pcCat = "done"
    /\ text_content = <<"A", " ", "c", "h", "u", "r", "c", "h", " ", "n", "e", "a", "r", " ", "t", "h", "e", " ", "b", "r", "i", "d", "g", "e">>
    /\ category = <<"C", "h", "u", "r", "c", "h">> /\ other_category = <<"B", "r", "i", "d", "g", "e">>

(***************************************************************************)
(* Vocabulary of the alias property                                        *)
(***************************************************************************)
\* the French name joined to the row by its URL, empty when there is none
FrenchNameByUrl(row) ==
    IF row.url \in DOMAIN fr_by_url THEN fr_by_url[row.url] ELSE << >>

\* the English name if not empty, then the French name if present and
\* different
NamesInPriority(row) ==
    (IF row.name # << >> THEN <<row.name>> ELSE << >>)
    \o (IF FrenchNameByUrl(row) # << >> /\ FrenchNameByUrl(row) # row.name
        THEN <<FrenchNameByUrl(row)>> ELSE << >>)

Distinct(s) == \A i, j \in 1..Len(s) : i # j => s[i] # s[j]

(***************************************************************************)
(* C30: get_aliases_for_en_row returns distinct non-empty names: the       *)
(* English name first if it is not empty, then the French name joined by   *)
(* URL if there is one and it differs; the lookup of the English name      *)
(* among the French names adds nothing, and the list has at most two       *)
(* entries.                                                                *)
(***************************************************************************)
C30_AliasList ==
    pcMatch = "done" =>
       /\ aliases = NamesInPriority(df_en[1])
       /\ Len(aliases) <= 2
       /\ Distinct(aliases)
       /\ \A k \in 1..Len(aliases) : aliases[k] # << >>

\* the English name is among the French names and is the French name of
\* its URL too: one alias
C30_Witness ==
    /\ pcMatch = "done"
    /\ df_en[1].name = Tour /\ Tour \in fr_by_name
    /\ FrenchNameByUrl(df_en[1]) = Tour
    /\ aliases = <<Tour>>

\* no English name while the French set has an empty name: the lookup by
\* name finds the empty name, and the list holds the French name of the URL
C30_EmptyName ==
    /\ pcMatch = "done"
    /\ df_en[1].name = << >> /\ << >> \in fr_by_name
    /\ aliases = <<MuseeDuLouvre>>

=============================================================================
